---- MODULE Spec2Model ----
(***************************************************************************)
(* A model of deejX's host side: the serial line decoder and the Device    *)
(* Link life cycle of SerialIO (src/unnamed/part_001, the serial layer     *)
(* that src/pkg/deej/deej.go is written against), and the parts of Deej    *)
(* that drive it.                                                          *)
(*                                                                         *)
(* Slider values are float32 hundredths in the code (n/100); the model     *)
(* keeps them as integers in hundredths, so 1.0 is 100 and -1.0 is -100.   *)
(***************************************************************************)
EXTENDS Integers, Sequences, FiniteSets, TLC

VARIABLES
    \* ---- SerialIO decoder state
    lastKnownNumSliders,          \* sio.lastKnownNumSliders
    currentSliderPercentValues,   \* sio.currentSliderPercentValues
    InvertSliders,                \* deej.config.InvertSliders
    \* ---- observation of the latest handleLine call
    line,                         \* the raw line handed to handleLine
    moveEvents,                   \* the events that call delivered
    preNum,                       \* lastKnownNumSliders when it was called
    preValues,                    \* currentSliderPercentValues when it was called
    op,                           \* the latest operation on the decoder state
    \* ---- the serial port (environment) and the configuration
    portPresent,                  \* serial.Open on the port would find the device
    ConnectionInfo,               \* deej.config.ConnectionInfo
    \* ---- SerialIO link state
    comPort, baudRate,            \* sio.comPort, sio.baudRate
    connected,                    \* sio.connected
    conn,                         \* sio.conn: 0 is nil, else the handle
    handles,                      \* the serial handles that are open
    reading,                      \* the read task in its loop: "none", "loop", "stopping"
    deferFlag,                    \* read tasks that returned, deferred func not yet run
    deferNotify,                  \* read tasks in the deferred loop over reconnectNotifiers
    reconnectLoops,               \* live reconnection goroutines spawned by Start
    tickerStopped,                \* sio.reconnectTicker.Stop() has been called
    reconnectNotifiers,           \* len(sio.reconnectNotifiers)
    notifyChan,                   \* values buffered in the reconnect channel
    \* ---- Deej and config goroutines
    pc,                           \* position of run, listener, reload and main
    startErr,                     \* what the latest Start() of run / reload returned
    watchPc,                      \* the config watcher: "idle", "notify", "stopped"
    pendingResets,                \* delayed lastKnownNumSliders resets not yet run
    reloads,                      \* config reloads so far
    loadChanged,                  \* the latest reload changed com_port or baud_rate
    stopSignal,                   \* d.stopChannel: "none", "pending", "taken"
    monitors,                     \* master volume monitor goroutines
    keepAlives,                   \* keep-alive sender goroutines
    \* ---- observation of the link
    opened,                       \* successful serial.Open calls so far
    openedBy,                     \* who made the latest one: "run", "reload", "ticker"
    openedWith,                   \* the port and baud rate it used
    cfgAtOpen,                    \* ConnectionInfo at that moment
    numAtOpen,                    \* lastKnownNumSliders right after that connect()
    linesOnConn,                  \* lines handled on the current connection (0, 1, 2 = more)
    dispatched,                   \* a slider-move event of this connection was delivered
    wire,                         \* kinds of message the device got on this connection
    acked,                        \* kinds whose SendToArduino returned nil on it
    sent,                         \* the latest SendToArduino call
    readErrs,                     \* read errors so far
    lostOwed,                     \* link-lost notifications the deferred loops took on
    lostPublished,                \* link-lost notifications put into the channel
    \* ---- delivery of slider-move events to the subscribers
    sliderMoveConsumers,          \* sio.sliderMoveConsumers: the content of each channel
    delivering,                   \* deliverMoveEvents at work: its events and loop positions
    received,                     \* what each subscriber has taken out of its channel
    decoded,                      \* every event decoded so far, in order, with its line number
    lineNo,                       \* lines handed to handleLine so far
    \* ---- the master volume monitor goroutine and the master session it polls
    masterSession,                \* d.sessions.get(master): present, volume (thousandths), mute
    lastVolume, lastMute,         \* the monitor's lastVolume (thousandths) and lastMute
    stableCounter,                \* the monitor's stableCounter
    currentInterval,              \* the monitor's currentInterval, in ms
    monitorMsgs,                  \* the messages the latest tick handed to SendToArduino
    ticked,                       \* flips at every tick of the monitor
    stableRun,                    \* ticks in a row that found volume and mute unchanged
    \* ---- wcaSessionFinder
    mmDeviceEnumerator,           \* sf.mmDeviceEnumerator != nil
    mmNotificationClient,         \* sf.mmNotificationClient: "nil", "set", "registered"
    masterOut, masterIn,          \* sf.masterOut, sf.masterIn: 0 is nil, else the session
    lastDefaultDeviceChange,      \* sf.lastDefaultDeviceChange, in ms; 0 is the zero time
    clock,                        \* time.Now(), in ms
    pass,                         \* getAllSessionsInternal as run for GetAllSessions ("get")
                                  \* and for monitorConnection ("health"): position and locals
    passes,                       \* enumeration passes started so far
    nextSession,                  \* native sessions created so far; they are 1..nextSession
    releasedSessions,             \* the sessions whose Release() was called
    staleSessions,                \* the master sessions marked stale
    getResult,                    \* what the latest GetAllSessions returned: its err, the
                                  \* sessions its pass created, the masters it handed out
    routerMasters,                \* the masters of the latest successful GetAllSessions
    notified,                     \* the latest device-change notification: when, how long
                                  \* after the one before, what was done, what it marked
    \* ---- processAudioSessions
    sessionKinds,                 \* what the session enumerator holds, by index
    sessionIdx,                   \* sessionIdx of the loop (0-based)
    sessions,                     \* *sessions: the indices whose session was appended
    rawHandles,                   \* native handles got and neither released nor
                                  \* owned by an appended session
    releasedHandles,              \* native handles whose Release() was called
    processErr,                   \* "idle", "running", "nil", "error"
    \* ---- SerialIO.connect with its retry budget (part_002)
    retryCount,                   \* sio.retryCount
    connectPc,                    \* "idle", "open": a call of connect() is at serial.Open
    opens,                        \* serial.Open calls of the latest call of connect()
    connectErr,                   \* what it returned: "none", "nil", "max retries reached"
    connectCalls,                 \* calls of connect() so far
    \* ---- the Arduino sketch and its serial input
    rx,                           \* the host's messages not yet read by the device
    state,                        \* DeejState: sliderNames, screensActive, dataChanged,
                                  \* mute, masterVolume
    keepAlive,                    \* millis() at the latest keep-alive
    millis,                       \* millis() at the latest loop()
    displayBlank,                 \* the displays were cleared and not drawn since
    parsed,                       \* the command the latest loop() parsed, "none" if none
    announced,                    \* the slider names of the latest announcement sent
    hostSends,                    \* messages the host has sent so far
    \* ---- the slider ceilings
    SliderMaxVolume,              \* cc.SliderMaxVolume: slider index to percent
    volumeSet,                    \* the latest Set event applied: its slider, its value
                                  \* in hundredths, the volume set in ten-thousandths
    \* ---- withRetry
    invocations,                  \* what operation() returned, call by call
    lastErr,                      \* lastErr
    withRetryPc,                  \* "idle", "loop", "done"
    withRetryErr,                 \* what withRetry returned: "none", "nil", or the
                                  \* error its error wraps
    withRetryCalls,               \* calls of withRetry so far
    \* ---- the monitor on the link
    deviceMaster,                 \* the master state of the latest update written to
                                  \* the device, <<>> if none
    \* ---- the end of the session finder
    ctxDone,                      \* sf.cancel() was called: sf.ctx.Done() is closed
    monitorReturned               \* the goroutine of monitorConnection has returned

decVars == <<lastKnownNumSliders, currentSliderPercentValues, InvertSliders,
             line, moveEvents, preNum, preValues, op>>

\* deliverMoveEvents and the subscribers' channels
deliverVars == <<sliderMoveConsumers, delivering, received, decoded, lineNo>>

\* the components next to the serial link, which no step of the link writes
\* the master volume monitor and the session it reads
monitorVars == <<masterSession, lastVolume, lastMute, stableCounter,
                 currentInterval, monitorMsgs, ticked, stableRun>>

\* the session finder: its fields, its passes, the native sessions, the clock
finderVars == <<mmDeviceEnumerator, mmNotificationClient, masterOut, masterIn,
                lastDefaultDeviceChange, clock, pass, passes, nextSession,
                releasedSessions, staleSessions, getResult, routerMasters,
                notified>>

\* one run of processAudioSessions over the sessions of an output device
enumVars == <<sessionKinds, sessionIdx, sessions, rawHandles, releasedHandles,
              processErr>>

\* connect() of the SerialIO that retries (part_002)
retryVars == <<retryCount, connectPc, opens, connectErr, connectCalls>>

\* the device: what is on its serial input and the state of the sketch
deviceVars == <<rx, state, keepAlive, millis, displayBlank, parsed, announced,
                hostSends>>

\* the per-slider ceilings of the configuration and their use
ceilingVars == <<SliderMaxVolume, volumeSet>>

\* the components that stand apart from the link, the monitor and the finder
\* withRetry around an operation
withRetryVars == <<invocations, lastErr, withRetryPc, withRetryErr,
                   withRetryCalls>>

\* what the device was told of the master session
masterLinkVars == <<deviceMaster>>

\* the context of the finder and the goroutine that waits on it
releaseVars == <<ctxDone, monitorReturned>>

laterVars == <<enumVars, retryVars, deviceVars, ceilingVars, withRetryVars,
               masterLinkVars, releaseVars>>

\* for each of them, the others
besideEnum == <<retryVars, deviceVars, ceilingVars, withRetryVars, masterLinkVars,
    releaseVars>>
besideRetry == <<enumVars, deviceVars, ceilingVars, withRetryVars, masterLinkVars,
    releaseVars>>
besideDevice == <<enumVars, retryVars, ceilingVars, withRetryVars, masterLinkVars,
    releaseVars>>
besideCeiling == <<enumVars, retryVars, deviceVars, withRetryVars, masterLinkVars,
    releaseVars>>
besideWithRetry == <<enumVars, retryVars, deviceVars, ceilingVars, masterLinkVars,
    releaseVars>>
besideMasterLink == <<enumVars, retryVars, deviceVars, ceilingVars, withRetryVars,
    releaseVars>>
besideRelease == <<enumVars, retryVars, deviceVars, ceilingVars, withRetryVars,
    masterLinkVars>>

compVars == <<deliverVars, monitorVars, finderVars, laterVars>>

\* what no step of the link or of the decoder writes: sio.comPort and
\* sio.baudRate, set in NewSerialIO, and the other components
fixedVars == <<comPort, baudRate, compVars>>

\* what connect() and close() write, and what is recorded of a connect()
connVars == <<connected, conn, handles, reading>>
openVars == <<opened, openedBy, openedWith, cfgAtOpen, numAtOpen>>

\* what is recorded of the traffic on the current connection
lineVars == <<linesOnConn, dispatched>>
wireVars == <<wire, acked>>

\* the deferred function of the read tasks and the reconnect channel
taskVars == <<deferFlag, deferNotify, notifyChan, readErrs, lostOwed, lostPublished>>

loopVars == <<reconnectLoops, tickerStopped>>

cfgVars == <<ConnectionInfo, watchPc, pendingResets, reloads, loadChanged>>

spawnVars == <<monitors, keepAlives, reconnectNotifiers>>

linkVars == <<portPresent, fixedVars, connVars, openVars, lineVars, wireVars,
              taskVars, loopVars, cfgVars, spawnVars, pc, startErr, stopSignal,
              sent>>

vars == <<decVars, linkVars>>

-----------------------------------------------------------------------------
(* Bounds of the model.                                                    *)

MaxFields == 2      \* fields per sample line of the decoder
MaxConnects == 2    \* successful serial.Open calls in one run
MaxReloads == 2     \* config reloads in one run
MaxConsumers == 2   \* subscribers to the slider-move events
MaxLines == 2       \* lines whose events are followed to the subscribers
MaxStable == 101    \* stable ticks in a row the monitor is followed through
MaxPasses == 2      \* enumeration passes of the session finder in one run
MaxSessions == 3    \* native sessions the passes of one run create
MaxAudioSessions == 3  \* sessions the session enumerator of a device holds
MaxCalls == 4        \* calls of the retrying connect() in one run
MaxNames == 3        \* slider indices a configuration names
MaxSends == 2        \* messages the host sends to the device in one run
MaxLoops == 4        \* steps of the device's clock in one run
MaxSliders == 2      \* sliders that slider_max_volume may name
MaxWithRetry == 3    \* calls of withRetry in one run
MaxTicks == 3        \* steps of the session finder's clock in one run

-----------------------------------------------------------------------------
(* Characters and fields.  A raw line is a sequence of one-character       *)
(* strings, as bufio.Reader.ReadString('\n') returns it.                   *)

Digits == {"0", "1", "2", "3", "4", "5", "6", "7", "8", "9"}

DigitVal(c) ==
    CASE c = "0" -> 0 [] c = "1" -> 1 [] c = "2" -> 2 [] c = "3" -> 3
      [] c = "4" -> 4 [] c = "5" -> 5 [] c = "6" -> 6 [] c = "7" -> 7
      [] c = "8" -> 8 [] c = "9" -> 9 [] OTHER -> 0

CommandChars == {"=", "+", "^", "-"}

\* \d{1,4}
IsNumericField(f) == Len(f) \in 1..4 /\ \A i \in 1..Len(f) : f[i] \in Digits

\* [=\+\^\-]
IsCommandField(f) == Len(f) = 1 /\ f[1] \in CommandChars

\* strings.Split(s, "|"): the pieces between separators; "" splits to [""].
RECURSIVE SplitFrom(_, _, _)
SplitFrom(s, i, cur) ==
    IF i > Len(s) THEN <<cur>>
    ELSE IF s[i] = "|" THEN <<cur>> \o SplitFrom(s, i + 1, <<>>)
    ELSE SplitFrom(s, i + 1, Append(cur, s[i]))

Split(s) == SplitFrom(s, 1, <<>>)

HasCRLF(s) == Len(s) >= 2 /\ s[Len(s) - 1] = "\r" /\ s[Len(s)] = "\n"

\* strings.TrimSuffix(line, "\r\n")
TrimSuffix(s) == IF HasCRLF(s) THEN SubSeq(s, 1, Len(s) - 2) ELSE s

\* expectedLinePattern.MatchString(line):
\*   ^(\d{1,4}|[=\+\^\-])(\|(\d{1,4}|[=\+\^\-]))*\r\n$
expectedLinePattern(s) ==
    /\ HasCRLF(s)
    /\ LET fs == Split(SubSeq(s, 1, Len(s) - 2))
       IN  \A i \in 1..Len(fs) : IsNumericField(fs[i]) \/ IsCommandField(fs[i])

\* strconv.Atoi on a field; the error is dropped by the caller, leaving 0.
RECURSIVE AtoiDigits(_, _)
AtoiDigits(f, n) ==
    IF n = 0 THEN 0 ELSE AtoiDigits(f, n - 1) * 10 + DigitVal(f[n])

Atoi(f) ==
    IF Len(f) >= 1 /\ \A i \in 1..Len(f) : f[i] \in Digits
    THEN AtoiDigits(f, Len(f)) ELSE 0

\* util.NormalizeScalar, in hundredths: the scalar kept within [0, 1].
NormalizeScalar(h) == IF h < 0 THEN 0 ELSE IF h > 100 THEN 100 ELSE h

\* calculateNormalizedValue without the invert_sliders branch
calculateNeverInverted(rawValue, invert) == NormalizeScalar(rawValue)

\* SerialIO.calculateNormalizedValue: float32(rawValue) / 100.0, normalized,
\* and 1 - x under invert_sliders.
calculateNormalizedValue(rawValue, invert) ==
    LET normalizedScalar == NormalizeScalar(rawValue)
    IN  IF invert THEN 100 - normalizedScalar ELSE normalizedScalar

SliderMoveEvent(id, value, command) ==
    [SliderID |-> id, PercentValue |-> value, Command |-> command]

-----------------------------------------------------------------------------
(* updateSliderCount recording the new count over the old history.         *)

updateSliderCountKeepsHistory(num, values, numSliders) ==
    [num |-> numSliders, values |-> values]

(* SerialIO.updateSliderCount: the pair (count, history) after the call.   *)

updateSliderCount(num, values, numSliders) ==
    IF numSliders # num
    THEN [num |-> numSliders, values |-> [i \in 1..numSliders |-> -100]]
    ELSE [num |-> num, values |-> values]

(* The loop of processSliderValues leaving at a "=" field instead of       *)
(* going on to the next one.                                               *)
RECURSIVE processFromEqualsEnds(_, _, _, _, _)
processFromEqualsEnds(splitLine, idx, values, events, invert) ==
    IF idx > Len(splitLine) THEN [values |-> values, events |-> events]
    ELSE LET stringValue == splitLine[idx] IN
      IF stringValue = <<"=">>
      THEN [values |-> values, events |-> events]
      ELSE IF stringValue \in {<<"+">>, <<"-">>, <<"^">>}
      THEN processFromEqualsEnds(splitLine, idx + 1, values,
                       Append(events, SliderMoveEvent(idx - 1, 100, stringValue[1])),
                       invert)
      ELSE LET number == Atoi(stringValue) IN
        IF idx = 1 /\ number > 100
        THEN [values |-> values, events |-> events]
        ELSE LET normalizedScalar == calculateNormalizedValue(number, invert) IN
             processFromEqualsEnds(splitLine, idx + 1,
                         [values EXCEPT ![idx] = normalizedScalar],
                         Append(events, SliderMoveEvent(idx - 1, normalizedScalar, "=")),
                         invert)

(* SerialIO.processSliderValues: the loop over splitLine from field idx    *)
(* (1-based here; SliderID is idx - 1), carrying the history and the       *)
(* events appended so far.  The result is [values, events].                *)
RECURSIVE processFrom(_, _, _, _, _)
processFrom(splitLine, idx, values, events, invert) ==
    IF idx > Len(splitLine) THEN [values |-> values, events |-> events]
    ELSE LET stringValue == splitLine[idx] IN
      IF stringValue = <<"=">>
      THEN processFrom(splitLine, idx + 1, values, events, invert)
      ELSE IF stringValue \in {<<"+">>, <<"-">>, <<"^">>}
      THEN processFrom(splitLine, idx + 1, values,
                       Append(events, SliderMoveEvent(idx - 1, 100, stringValue[1])),
                       invert)
      ELSE LET number == Atoi(stringValue) IN
        IF idx = 1 /\ number > 100
        THEN [values |-> values, events |-> events]
        ELSE LET normalizedScalar == calculateNormalizedValue(number, invert) IN
             processFrom(splitLine, idx + 1,
                         [values EXCEPT ![idx] = normalizedScalar],
                         Append(events, SliderMoveEvent(idx - 1, normalizedScalar, "=")),
                         invert)

processSliderValues(splitLine, values, invert) ==
    processFrom(splitLine, 1, values, <<>>, invert)

(* SerialIO.handleLine: [num, values, events] after handling raw line s.   *)
handleLine(s, num, values, invert) ==
    IF ~expectedLinePattern(s)
    THEN [num |-> num, values |-> values, events |-> <<>>]
    ELSE LET splitLine == Split(TrimSuffix(s))
             numSliders == Len(splitLine)
             upd == updateSliderCount(num, values, numSliders)
             res == processSliderValues(splitLine, upd.values, invert)
         IN  [num |-> upd.num, values |-> res.values, events |-> res.events]

-----------------------------------------------------------------------------
(* The lines the device link is fed with.                                  *)

FieldSamples ==
    { <<"0">>, <<"5", "0">>, <<"1", "0", "1">>, <<"9", "9", "9", "9">>,
      <<"=">>, <<"+">>, <<"-">>, <<"^">> }

RECURSIVE Join(_)
Join(fs) ==
    IF Len(fs) = 0 THEN <<>>
    ELSE IF Len(fs) = 1 THEN fs[1]
    ELSE fs[1] \o <<"|">> \o Join(Tail(fs))

FieldLists == UNION { [1..n -> FieldSamples] : n \in 1..MaxFields }

\* Lines that fail the grammar: a bare line feed, no terminator, an empty
\* body, an empty field, a five-digit field, a field that is no number.
MalformedLines ==
    { <<"5", "0", "\n">>, <<"5", "0">>, <<"\r", "\n">>,
      <<"5", "0", "|", "\r", "\n">>,
      <<"1", "2", "3", "4", "5", "\r", "\n">>,
      <<"x", "\r", "\n">>, <<"5", "0", "|", "x", "\r", "\n">>,
      <<"=", "|", "5", "0", "|", "5", "x", "\r", "\n">> }

Lines == { Join(fs) \o <<"\r", "\n">> : fs \in FieldLists } \cup MalformedLines

-----------------------------------------------------------------------------
(* Decoder actions.                                                        *)

DecodeInit ==
    /\ lastKnownNumSliders = 0
    /\ currentSliderPercentValues = <<>>
    /\ line = <<>>
    /\ moveEvents = <<>>
    /\ preNum = 0
    /\ preValues = <<>>
    /\ op = "new"

\* handleLine(s) on the decoder state, called by the read loop.
DoHandleLine(s) ==
    \E r \in { handleLine(s, lastKnownNumSliders, currentSliderPercentValues,
                            InvertSliders) } :
        /\ line' = s
        /\ preNum' = lastKnownNumSliders
        /\ preValues' = currentSliderPercentValues
        /\ lastKnownNumSliders' = r.num
        /\ currentSliderPercentValues' = r.values
        /\ moveEvents' = r.events
        /\ op' = "handleLine"
        /\ UNCHANGED InvertSliders

\* sio.lastKnownNumSliders = 0, the delayed reset after a config reload.
DoResetSliderCount ==
    /\ lastKnownNumSliders' = 0
    /\ op' = "reset"
    /\ UNCHANGED <<currentSliderPercentValues, InvertSliders, line, moveEvents,
                   preNum, preValues>>

-----------------------------------------------------------------------------
(* The Device Link: SerialIO of src/unnamed/part_001 and the goroutines of *)
(* Deej and CanonicalConfig that drive it.  Sleeps and tickers are         *)
(* untimed: a step that follows a sleep or waits for a tick may be taken   *)
(* at any later moment.                                                    *)

\* cap(ch) of SubscribeToReconnectEvents: make(chan bool, 1)
NotifierBuffer == 1

ConnInfos ==
    { [COMPort |-> "COM5", BaudRate |-> 9600],
      [COMPort |-> "COM4", BaudRate |-> 9600],
      [COMPort |-> "COM5", BaudRate |-> 115200] }

\* The lines the device sends while the link is up.
LinkLines == { <<"5", "0", "\r", "\n">> }

NoSend == [connected |-> FALSE, err |-> "", wrote |-> FALSE]

\* no delivery is under way
NoDelivery == [events |-> <<>>, consumer |-> 0, event |-> 0]

\* NewSerialIO: no subscriber yet, nothing decoded
DeliverIdle ==
    /\ sliderMoveConsumers = <<>>
    /\ delivering = NoDelivery
    /\ received = <<>>
    /\ decoded = <<>>
    /\ lineNo = 0

\* startMasterVolumeMonitor's constants: the two ticker intervals in ms and
\* the number of stable cycles before returning to the low frequency
lowFreqInterval == 10
highFreqInterval == 10
stableThreshold == 100

\* the variables of a monitor goroutine as it starts, and a master session
\* at full volume
MonitorIdle ==
    /\ masterSession = [present |-> TRUE, volume |-> 1000, mute |-> FALSE]
    /\ lastVolume = -1000
    /\ lastMute = FALSE
    /\ stableCounter = 0
    /\ currentInterval = lowFreqInterval
    /\ monitorMsgs = <<>>
    /\ ticked = FALSE
    /\ stableRun = 0

\* a pass that is not running
NoPass == [pc |-> "idle", sessions |-> <<>>, live |-> <<>>, created |-> {},
           input |-> FALSE, retries |-> 0, err |-> FALSE]

\* what a session of a pass stands for: the default output endpoint, the
\* default input endpoint, or the i-th live device or process session in
\* the order of enumeration (1, 2, ...)
LiveMasterOut == 0
LiveMasterIn == -1

NoResult == [err |-> "none", created |-> {}, masters |-> {}]

NoNotification == [at |-> 0, gap |-> 0, sinceProcessed |-> 0, did |-> "none",
                   marked |-> {}, first |-> FALSE, held |-> {}]

\* the clock when the finder is made, in milliseconds after the zero time
StartOfClock == 500

\* newSessionFinder: nothing connected, no master session; the process runs
\* long after the zero time
FinderIdle ==
    /\ mmDeviceEnumerator = FALSE
    /\ mmNotificationClient = "nil"
    /\ masterOut = 0
    /\ masterIn = 0
    /\ lastDefaultDeviceChange = 0
    /\ clock = StartOfClock
    /\ pass = [get |-> NoPass, health |-> NoPass]
    /\ passes = 0
    /\ nextSession = 0
    /\ releasedSessions = {}
    /\ staleSessions = {}
    /\ getResult = NoResult
    /\ routerMasters = {}
    /\ notified = NoNotification

\* no session enumerator at hand
EnumIdle ==
    /\ sessionKinds = <<>>
    /\ sessionIdx = 0
    /\ sessions = <<>>
    /\ rawHandles = {}
    /\ releasedHandles = {}
    /\ processErr = "idle"

\* NewSerialIO: retryCount is 0, connect() has not been called
RetryIdle ==
    /\ retryCount = 0
    /\ connectPc = "idle"
    /\ opens = 0
    /\ connectErr = "none"
    /\ connectCalls = 0

\* the sketch's sizes and its keep-alive timeout in ms
SERIAL_BUFFER_SIZE == 100
SLIDER_NAME_LENGTH == 20
MAX_SLIDERS == 4
CONFIG_KEEPALIVE_TIMEOUT == 10000

\* setup(): state.init(), the displays cleared by initDisplay
DeviceIdle ==
    /\ rx = <<>>
    /\ state = [sliderNames |-> [i \in 1..MAX_SLIDERS |-> <<>>],
                screensActive |-> TRUE, dataChanged |-> TRUE,
                mute |-> 0, masterVolume |-> 0]
    /\ keepAlive = 0
    /\ millis = 0
    /\ displayBlank = TRUE
    /\ parsed = "none"
    /\ announced = [i \in {} |-> <<>>]
    /\ hostSends = 0

NoVolumeSet == [slider |-> -1, value |-> 0, effective |-> 0, ceiling |-> 0]

\* a configuration without slider_max_volume
CeilingIdle ==
    /\ SliderMaxVolume = [i \in {} |-> 0]
    /\ volumeSet = NoVolumeSet

\* withRetry not called yet
WithRetryIdle ==
    /\ invocations = <<>>
    /\ lastErr = "nil"
    /\ withRetryPc = "idle"
    /\ withRetryErr = "none"
    /\ withRetryCalls = 0

LaterIdle ==
    /\ EnumIdle /\ RetryIdle /\ DeviceIdle /\ CeilingIdle /\ WithRetryIdle
    /\ deviceMaster = <<>>
    /\ ctxDone = FALSE
    /\ monitorReturned = FALSE

\* the other components before they are started
CompIdle == DeliverIdle /\ MonitorIdle /\ FinderIdle /\ LaterIdle

LinkInit ==
    /\ portPresent \in BOOLEAN
    /\ ConnectionInfo = [COMPort |-> "COM5", BaudRate |-> 9600]
    /\ comPort = ConnectionInfo.COMPort
    /\ baudRate = ConnectionInfo.BaudRate
    /\ connected = FALSE
    /\ conn = 0
    /\ handles = {}
    /\ reading = "none"
    /\ deferFlag = 0
    /\ deferNotify = 0
    /\ reconnectLoops = 0
    /\ tickerStopped = FALSE
    /\ reconnectNotifiers = 0
    /\ notifyChan = 0
    /\ pc = [run |-> "start", listener |-> "none", reload |-> "idle", main |-> "run"]
    /\ startErr = [run |-> "none", reload |-> "none"]
    /\ watchPc = "idle"
    /\ pendingResets = 0
    /\ reloads = 0
    /\ loadChanged = FALSE
    /\ stopSignal = "none"
    /\ monitors = 0
    /\ keepAlives = 0
    /\ opened = 0
    /\ openedBy = "none"
    /\ openedWith = ConnectionInfo
    /\ cfgAtOpen = ConnectionInfo
    /\ numAtOpen = 0
    /\ linesOnConn = 0
    /\ dispatched = FALSE
    /\ wire = {}
    /\ acked = {}
    /\ sent = NoSend
    /\ readErrs = 0
    /\ lostOwed = 0
    /\ lostPublished = 0
    /\ CompIdle

\* The process runs until os.Exit in Deej.run, or a panic.
Alive == pc["main"] \notin {"exited", "panic"}

Goto(p, where) == pc' = [pc EXCEPT ![p] = where]

\* ---- the environment: the device is plugged in or pulled out
PortAppears ==
    /\ Alive /\ ~portPresent
    /\ portPresent' = TRUE
    /\ UNCHANGED <<decVars, fixedVars, connVars, openVars, lineVars, wireVars,
                   taskVars, loopVars, cfgVars, spawnVars, pc, startErr,
                   stopSignal, sent>>

PortVanishes ==
    /\ Alive /\ portPresent
    /\ portPresent' = FALSE
    /\ UNCHANGED <<decVars, fixedVars, connVars, openVars, lineVars, wireVars,
                   taskVars, loopVars, cfgVars, spawnVars, pc, startErr,
                   stopSignal, sent>>

\* ---- SerialIO.connect
\* serial.Open(sio.comPort, mode) succeeds when the device is there and no
\* other handle holds the port (a COM port is opened exclusively).
CanOpen == portPresent /\ handles = {} /\ opened < MaxConnects

\* the port and mode connect() opens
OpenParams == [COMPort |-> comPort, BaudRate |-> baudRate]

\* connect() after a successful Open, called by who
connectOK(who) ==
    /\ conn' = opened + 1
    /\ handles' = handles \cup {opened + 1}
    /\ connected' = TRUE
    /\ reading' = "loop"
    /\ opened' = opened + 1
    /\ openedBy' = who
    /\ openedWith' = OpenParams
    /\ cfgAtOpen' = ConnectionInfo
    /\ numAtOpen' = lastKnownNumSliders
    /\ linesOnConn' = 0
    /\ dispatched' = FALSE
    /\ wire' = {}
    /\ acked' = {}

\* a Start without the check of sio.connected
StartNeverRefuses == FALSE

\* ---- SerialIO.Start, called by Deej.run's goroutine and by the reload goroutine
StartRefuses == connected

Start(p) ==
    /\ Alive /\ pc[p] = "start"
    /\ IF StartRefuses
       THEN /\ startErr' = [startErr EXCEPT ![p] = "connection already active"]
            /\ UNCHANGED <<connVars, openVars, lineVars, wireVars, reconnectLoops>>
       ELSE IF CanOpen
       THEN /\ connectOK(p)
            /\ reconnectLoops' = reconnectLoops + 1
            /\ startErr' = [startErr EXCEPT ![p] = "nil"]
       ELSE /\ startErr' = [startErr EXCEPT ![p] = "failed to connect"]
            /\ UNCHANGED <<connVars, openVars, lineVars, wireVars, reconnectLoops>>
    /\ Goto(p, IF p = "run" THEN "names" ELSE "idle")
    /\ UNCHANGED <<decVars, portPresent, fixedVars, taskVars, tickerStopped,
                   cfgVars, spawnVars, stopSignal, sent>>

\* ---- the reconnection goroutine of Start: case <-sio.reconnectTicker.C
ReconnectTick ==
    /\ Alive /\ reconnectLoops > 0 /\ ~tickerStopped
    /\ ~connected
    /\ IF CanOpen
       THEN connectOK("ticker")
       ELSE UNCHANGED <<connVars, openVars, lineVars, wireVars>>
    /\ UNCHANGED <<decVars, portPresent, fixedVars, taskVars, loopVars, cfgVars,
                   spawnVars, pc, startErr, stopSignal, sent>>

\* ---- SerialIO.close, by the read task that holds the link
closeConn ==
    IF conn = 0
    THEN /\ Goto("main", "panic")
         /\ UNCHANGED <<conn, handles, connected>>
    ELSE /\ handles' = handles \ {conn}
         /\ conn' = 0
         /\ connected' = FALSE
         /\ UNCHANGED pc

\* ---- SerialIO.readFromSerial: a line is read and handled
ReadLine(s) ==
    /\ Alive /\ reading = "loop"
    /\ DoHandleLine(s)
    /\ linesOnConn' = IF linesOnConn = 0 THEN 1 ELSE 2
    /\ dispatched' = (dispatched \/ moveEvents' # <<>>)
    /\ UNCHANGED <<portPresent, fixedVars, connVars, openVars, wireVars, taskVars,
                   loopVars, cfgVars, spawnVars, pc, startErr, stopSignal, sent>>

\* a read error that only clears the flag and leaves the handle open
ReadErrorNoClose ==
    /\ Alive /\ reading = "loop"
    /\ connected' = FALSE
    /\ reading' = "none"
    /\ deferFlag' = deferFlag + 1
    /\ readErrs' = readErrs + 1
    /\ UNCHANGED <<decVars, portPresent, fixedVars, conn, handles, openVars,
                   lineVars, wireVars, deferNotify, notifyChan, lostOwed,
                   lostPublished, loopVars, cfgVars, spawnVars, pc, startErr,
                   stopSignal, sent>>

\* reader.ReadString fails: close() and return, the deferred func is pending
ReadError ==
    /\ Alive /\ reading = "loop"
    /\ closeConn
    /\ reading' = "none"
    /\ deferFlag' = deferFlag + 1
    /\ readErrs' = readErrs + 1
    /\ UNCHANGED <<decVars, portPresent, fixedVars, openVars, lineVars, wireVars,
                   deferNotify, notifyChan, lostOwed, lostPublished, loopVars,
                   cfgVars, spawnVars, startErr, stopSignal, sent>>

\* case <-sio.stopChannel: the read task takes the value Stop() is sending
StopChanRendezvous(p) ==
    /\ Alive /\ pc[p] = "stopChan" /\ reading = "loop"
    /\ reading' = "stopping"
    /\ Goto(p, IF p = "reload" THEN "start" ELSE "release")
    /\ UNCHANGED <<decVars, portPresent, fixedVars, connected, conn, handles,
                   openVars, lineVars, wireVars, taskVars, loopVars, cfgVars,
                   spawnVars, startErr, stopSignal, sent>>

\* ... and then close() and return
ReaderClose ==
    /\ Alive /\ reading = "stopping"
    /\ closeConn
    /\ reading' = "none"
    /\ deferFlag' = deferFlag + 1
    /\ UNCHANGED <<decVars, portPresent, fixedVars, openVars, lineVars, wireVars,
                   deferNotify, notifyChan, readErrs, lostOwed, lostPublished,
                   loopVars, cfgVars, spawnVars, startErr, stopSignal, sent>>

\* the deferred func: sio.connected = false, then range sio.reconnectNotifiers
DeferredFlag ==
    /\ Alive /\ deferFlag > 0
    /\ connected' = FALSE
    /\ deferFlag' = deferFlag - 1
    /\ lostOwed' = lostOwed + reconnectNotifiers
    /\ deferNotify' = IF reconnectNotifiers > 0 THEN deferNotify + 1 ELSE deferNotify
    /\ UNCHANGED <<decVars, portPresent, fixedVars, conn, handles, reading,
                   openVars, lineVars, wireVars, notifyChan, readErrs,
                   lostPublished, loopVars, cfgVars, spawnVars, pc, startErr,
                   stopSignal, sent>>

\* notifier <- false: a send that waits for room in the channel
CanPublish == notifyChan < NotifierBuffer

DeferredNotify ==
    /\ Alive /\ deferNotify > 0
    /\ CanPublish
    /\ notifyChan' = notifyChan + 1
    /\ lostPublished' = lostPublished + 1
    /\ deferNotify' = deferNotify - 1
    /\ UNCHANGED <<decVars, portPresent, fixedVars, connVars, openVars, lineVars,
                   wireVars, deferFlag, readErrs, lostOwed, loopVars, cfgVars,
                   spawnVars, pc, startErr, stopSignal, sent>>

\* ---- SerialIO.Stop, called by the reload goroutine and by Deej.stop
\* sio.stopTicker <- true, taken by a reconnection goroutine, which stops
\* the ticker and returns
StopTickerRendezvous(p) ==
    /\ Alive /\ pc[p] = "stopTicker" /\ reconnectLoops > 0
    /\ reconnectLoops' = reconnectLoops - 1
    /\ tickerStopped' = TRUE
    /\ Goto(p, "stopCheck")
    /\ UNCHANGED <<decVars, portPresent, fixedVars, connVars, openVars, lineVars,
                   wireVars, taskVars, cfgVars, spawnVars, startErr, stopSignal,
                   sent>>

\* if sio.connected { sio.stopChannel <- true } else { nothing to stop }
StopCheck(p) ==
    /\ Alive /\ pc[p] = "stopCheck"
    /\ Goto(p, IF connected THEN "stopChan"
                ELSE IF p = "reload" THEN "start" ELSE "release")
    /\ UNCHANGED <<decVars, portPresent, fixedVars, connVars, openVars, lineVars,
                   wireVars, taskVars, loopVars, cfgVars, spawnVars, startErr,
                   stopSignal, sent>>

\* a SendToArduino that checks sio.conn == nil only
SendRefusesOnNilOnly == conn = 0

\* ---- SerialIO.SendToArduino
SendRefuses == ~connected \/ conn = 0

SendToArduino(kind) ==
    IF SendRefuses
    THEN /\ sent' = [connected |-> connected,
                     err |-> "serial not connected", wrote |-> FALSE]
         /\ UNCHANGED wireVars
    ELSE IF portPresent
    THEN /\ sent' = [connected |-> connected, err |-> "nil",
                     wrote |-> TRUE]
         /\ wire' = wire \cup {kind}
         /\ acked' = acked \cup {kind}
    ELSE /\ sent' = [connected |-> connected,
                     err |-> "write failed", wrote |-> FALSE]
         /\ UNCHANGED wireVars

\* ---- Deej.initializeArduino, by run's goroutine and by the listener
\* sendSliderNamesToArduino: "<^names>"
InitNames(p) ==
    /\ Alive /\ pc[p] = "names"
    /\ SendToArduino("^")
    /\ Goto(p, "master")
    /\ UNCHANGED <<decVars, portPresent, fixedVars, connVars, openVars, lineVars,
                   taskVars, loopVars, cfgVars, spawnVars, startErr, stopSignal>>

\* SendInitialMasterVolume: "<!mute|percent>"
InitMaster(p) ==
    /\ Alive /\ pc[p] = "master"
    /\ SendToArduino("!")
    /\ Goto(p, "spawn")
    /\ UNCHANGED <<decVars, portPresent, fixedVars, connVars, openVars, lineVars,
                   taskVars, loopVars, cfgVars, spawnVars, startErr, stopSignal>>

\* startMasterVolumeMonitor and startKeepAliveMessageSender (whose goroutine
\* sends its first "<#>" at once); run's goroutine then subscribes to the
\* reconnect events and starts the listener
InitSpawn(p) ==
    /\ Alive /\ pc[p] = "spawn"
    /\ monitors' = monitors + 1
    /\ keepAlives' = keepAlives + 1
    /\ SendToArduino("#")
    /\ IF p = "run"
       THEN /\ reconnectNotifiers' = reconnectNotifiers + 1
            /\ pc' = [pc EXCEPT !["run"] = "done", !["listener"] = "wait"]
       ELSE /\ Goto(p, "wait")
            /\ UNCHANGED reconnectNotifiers
    /\ UNCHANGED <<decVars, portPresent, fixedVars, connVars, openVars, lineVars,
                   taskVars, loopVars, cfgVars, startErr, stopSignal>>

\* case <-reconnectChannel: sleep 3 s, then initializeArduino
ListenerRecv ==
    /\ Alive /\ pc["listener"] = "wait" /\ notifyChan > 0
    /\ notifyChan' = notifyChan - 1
    /\ Goto("listener", "names")
    /\ UNCHANGED <<decVars, portPresent, fixedVars, connVars, openVars, lineVars,
                   wireVars, deferFlag, deferNotify, readErrs, lostOwed,
                   lostPublished, loopVars, cfgVars, spawnVars, startErr,
                   stopSignal, sent>>

\* the keep-alive sender: case <-ticker.C; the same "<#>" as the initial one
\* of InitSpawn, recorded apart from it
KeepAliveTick ==
    /\ Alive /\ keepAlives > 0
    /\ SendToArduino("#tick")
    /\ UNCHANGED <<decVars, portPresent, fixedVars, connVars, openVars, lineVars,
                   taskVars, loopVars, cfgVars, spawnVars, pc, startErr,
                   stopSignal>>

\* ---- shutdown: signalStop sends one value on d.stopChannel
Interrupt ==
    /\ Alive /\ stopSignal = "none"
    /\ stopSignal' = "pending"
    /\ UNCHANGED <<decVars, portPresent, fixedVars, connVars, openVars, lineVars,
                   wireVars, taskVars, loopVars, cfgVars, spawnVars, pc, startErr,
                   sent>>

\* Deej.run takes it: stop() stops the config watcher and calls serial.Stop()
StopSignalMain ==
    /\ Alive /\ stopSignal = "pending" /\ pc["main"] = "run"
    /\ stopSignal' = "taken"
    /\ Goto("main", "stopTicker")
    /\ UNCHANGED <<decVars, portPresent, fixedVars, connVars, openVars, lineVars,
                   wireVars, taskVars, loopVars, cfgVars, spawnVars, startErr,
                   sent>>

\* the reconnect listener takes it and returns
StopSignalListener ==
    /\ Alive /\ stopSignal = "pending" /\ pc["listener"] = "wait"
    /\ stopSignal' = "taken"
    /\ Goto("listener", "exited")
    /\ UNCHANGED <<decVars, portPresent, fixedVars, connVars, openVars, lineVars,
                   wireVars, taskVars, loopVars, cfgVars, spawnVars, startErr,
                   sent>>

\* a keep-alive sender takes it and returns
StopSignalKeepAlive ==
    /\ Alive /\ stopSignal = "pending" /\ keepAlives > 0
    /\ stopSignal' = "taken"
    /\ keepAlives' = keepAlives - 1
    /\ UNCHANGED <<decVars, portPresent, fixedVars, connVars, openVars, lineVars,
                   wireVars, taskVars, loopVars, cfgVars, monitors,
                   reconnectNotifiers, pc, startErr, sent>>

\* Deej.stop after serial.Stop() returned: release the sessions, os.Exit
MainRelease ==
    /\ Alive /\ pc["main"] = "release"
    /\ Goto("main", "exited")
    /\ UNCHANGED <<decVars, portPresent, fixedVars, connVars, openVars, lineVars,
                   wireVars, taskVars, loopVars, cfgVars, spawnVars, startErr,
                   stopSignal, sent>>

\* ---- config reload
\* the watcher loads the changed file ...
ConfigLoad(ci) ==
    /\ Alive /\ watchPc = "idle" /\ pc["main"] = "run"
    /\ reloads < MaxReloads
    /\ ConnectionInfo' = ci
    /\ reloads' = reloads + 1
    /\ loadChanged' = (ci # ConnectionInfo)
    /\ watchPc' = "notify"
    /\ UNCHANGED <<decVars, portPresent, fixedVars, connVars, openVars, lineVars,
                   wireVars, taskVars, loopVars, pendingResets, spawnVars, pc,
                   startErr, stopSignal, sent>>

\* the connection parameters differ from the ones SerialIO holds
ParamsChanged ==
    ConnectionInfo.COMPort # comPort \/ ConnectionInfo.BaudRate # baudRate

\* ... and onConfigReloaded hands the reload to SerialIO's goroutine, which
\* starts the delayed reset and, on changed parameters, the restart
ConfigNotify ==
    /\ Alive /\ watchPc = "notify" /\ pc["reload"] = "idle"
    /\ watchPc' = "idle"
    /\ pendingResets' = pendingResets + 1
    /\ Goto("reload", IF ParamsChanged THEN "stopTicker" ELSE "idle")
    /\ UNCHANGED <<decVars, portPresent, fixedVars, connVars, openVars, lineVars,
                   wireVars, taskVars, loopVars, ConnectionInfo, reloads, loadChanged,
                   spawnVars, startErr, stopSignal, sent>>

\* <-time.After(stopDelay); sio.lastKnownNumSliders = 0
DelayedReset ==
    /\ Alive /\ pendingResets > 0
    /\ pendingResets' = pendingResets - 1
    /\ DoResetSliderCount
    /\ UNCHANGED <<portPresent, fixedVars, connVars, openVars, lineVars, wireVars,
                   taskVars, loopVars, ConnectionInfo, watchPc, reloads, loadChanged,
                   spawnVars, pc, startErr, stopSignal, sent>>

-----------------------------------------------------------------------------
(* The specifications.                                                     *)

Init == DecodeInit /\ InvertSliders = FALSE /\ LinkInit

\* The link from the first Start() to shutdown: the device comes and goes,
\* lines arrive, reads fail, the reconnect timer fires, and an interrupt
\* ends the run through Deej.stop.
Next ==
    \/ PortAppears
    \/ PortVanishes
    \/ Interrupt
    \/ Start("run")
    \/ ReconnectTick
    \/ \E s \in LinkLines : ReadLine(s)
    \/ ReadError
    \/ StopTickerRendezvous("main")
    \/ StopCheck("main")
    \/ StopChanRendezvous("main")
    \/ ReaderClose
    \/ DeferredFlag
    \/ DeferredNotify
    \/ \E p \in {"run", "listener"} : InitNames(p)
    \/ \E p \in {"run", "listener"} : InitMaster(p)
    \/ \E p \in {"run", "listener"} : InitSpawn(p)
    \/ ListenerRecv
    \/ KeepAliveTick
    \/ StopSignalMain
    \/ StopSignalListener
    \/ StopSignalKeepAlive
    \/ MainRelease

Spec == Init /\ [][Next]_vars

\* The link under config reloads: the restart of setupOnConfigReload next to
\* the first Start(), the reconnect timer and the read task.
NextReload ==
    \/ PortAppears
    \/ PortVanishes
    \/ \E ci \in ConnInfos : ConfigLoad(ci)
    \/ ConfigNotify
    \/ DelayedReset
    \/ \E p \in {"run", "reload"} : Start(p)
    \/ ReconnectTick
    \/ \E s \in LinkLines : ReadLine(s)
    \/ ReadError
    \/ StopTickerRendezvous("reload")
    \/ StopCheck("reload")
    \/ StopChanRendezvous("reload")
    \/ ReaderClose
    \/ DeferredFlag

SpecReload == Init /\ [][NextReload]_vars

\* The decoder alone, fed with every sample line.
HandleLine(s) ==
    /\ DoHandleLine(s)
    /\ UNCHANGED linkVars

ResetSliderCount ==
    /\ lastKnownNumSliders # 0
    /\ DoResetSliderCount
    /\ UNCHANGED linkVars

InitDecode ==
    /\ DecodeInit
    /\ InvertSliders \in BOOLEAN
    /\ LinkInit
    /\ portPresent = TRUE

NextDecode ==
    \/ \E s \in Lines : HandleLine(s)
    \/ ResetSliderCount

SpecDecode == InitDecode /\ [][NextDecode]_vars

\* handleLine as a function of the line, the option and the decoder state
\* it finds: one call, on every sample line, from the state of a new
\* SerialIO, from the states that lines of 1..MaxFields fields leave, and
\* from those states after the delayed reset, which zeroes the count and
\* leaves the history at its length.
PriorStates ==
    { [num |-> c, values |-> [i \in 1..n |-> 50]] :
        <<c, n>> \in { p \in (0..MaxFields) \X (0..MaxFields) :
                         p[1] = p[2] \/ p[1] = 0 } }

InitFields ==
    /\ \E p \in PriorStates :
          /\ lastKnownNumSliders = p.num
          /\ currentSliderPercentValues = p.values
    /\ line = <<>>
    /\ moveEvents = <<>>
    /\ preNum = 0
    /\ preValues = <<>>
    /\ op = "new"
    /\ InvertSliders \in BOOLEAN
    /\ LinkInit
    /\ portPresent = TRUE

HandleOneLine(s) ==
    /\ op = "new"
    /\ HandleLine(s)

NextFields == \E s \in Lines : HandleOneLine(s)

SpecFields == InitFields /\ [][NextFields]_vars

-----------------------------------------------------------------------------
(* Delivery of the decoded events: handleLine ends in deliverMoveEvents,   *)
(* which sends every event of the line to every subscriber's channel, one  *)
(* subscriber after the other.  An event in a channel carries the number   *)
(* of the line it was decoded from, for the record.                        *)

\* the state of the serial link, which the other components leave alone
serialVars == <<portPresent, comPort, baudRate, connVars, openVars, lineVars,
                wireVars, taskVars, loopVars, cfgVars, spawnVars, pc, startErr,
                stopSignal, sent>>

\* cap(ch) of SubscribeToSliderMoveEvents: make(chan SliderMoveEvent, 32)
ConsumerBuffer == 32

DeliverLines ==
    { <<"5", "0", "|", "+", "\r", "\n">>, <<"=", "|", "5", "0", "\r", "\n">>,
      <<"+", "\r", "\n">> }

\* SubscribeToSliderMoveEvents, called while Deej.Initialize sets up the
\* session map, before run() starts the serial link
SubscribeToSliderMoveEvents ==
    /\ lineNo = 0
    /\ Len(sliderMoveConsumers) < MaxConsumers
    /\ sliderMoveConsumers' = Append(sliderMoveConsumers, <<>>)
    /\ received' = Append(received, <<>>)
    /\ UNCHANGED <<decVars, serialVars, delivering, decoded, lineNo, monitorVars, finderVars, laterVars>>

\* the events of a line as they are recorded and carried
Numbered(events, n) ==
    [k \in 1..Len(events) |-> [line |-> n, event |-> events[k]]]

\* the read loop hands line s to handleLine; deliverMoveEvents starts its
\* loops if there is an event and a subscriber
DeliverLine(s) ==
    /\ delivering = NoDelivery
    /\ lineNo < MaxLines
    /\ DoHandleLine(s)
    /\ lineNo' = lineNo + 1
    /\ decoded' = decoded \o Numbered(moveEvents', lineNo + 1)
    /\ delivering' =
          IF Len(moveEvents') > 0 /\ Len(sliderMoveConsumers) > 0
          THEN [events |-> Numbered(moveEvents', lineNo + 1),
                consumer |-> 1, event |-> 1]
          ELSE NoDelivery
    /\ UNCHANGED <<serialVars, sliderMoveConsumers, received, monitorVars, finderVars, laterVars>>

\* the loops of deliverMoveEvents stopping after the first subscriber
deliverToFirstOnly ==
    /\ delivering # NoDelivery
    /\ Len(sliderMoveConsumers[delivering.consumer]) < ConsumerBuffer
    /\ sliderMoveConsumers' =
          [sliderMoveConsumers EXCEPT ![delivering.consumer] =
              Append(@, delivering.events[delivering.event])]
    /\ delivering' =
          IF delivering.event < Len(delivering.events)
          THEN [delivering EXCEPT !.event = @ + 1]
          ELSE NoDelivery
    /\ UNCHANGED <<decVars, serialVars, received, decoded, lineNo, monitorVars, finderVars, laterVars>>

\* consumer <- moveEvent: one send of the nested loops of deliverMoveEvents
\* (subscribers outside, events inside); it waits for room in the channel
deliverMoveEvents ==
    /\ delivering # NoDelivery
    /\ Len(sliderMoveConsumers[delivering.consumer]) < ConsumerBuffer
    /\ sliderMoveConsumers' =
          [sliderMoveConsumers EXCEPT ![delivering.consumer] =
              Append(@, delivering.events[delivering.event])]
    /\ delivering' =
          IF delivering.event < Len(delivering.events)
          THEN [delivering EXCEPT !.event = @ + 1]
          ELSE IF delivering.consumer < Len(sliderMoveConsumers)
          THEN [delivering EXCEPT !.consumer = @ + 1, !.event = 1]
          ELSE NoDelivery
    /\ UNCHANGED <<decVars, serialVars, received, decoded, lineNo, monitorVars, finderVars, laterVars>>

\* a subscriber takes the next event out of its channel
ConsumerRecv(c) ==
    /\ sliderMoveConsumers[c] # <<>>
    /\ received' = [received EXCEPT ![c] = Append(@, Head(sliderMoveConsumers[c]))]
    /\ sliderMoveConsumers' = [sliderMoveConsumers EXCEPT ![c] = Tail(@)]
    /\ UNCHANGED <<decVars, serialVars, delivering, decoded, lineNo, monitorVars, finderVars, laterVars>>

NextDeliver ==
    \/ SubscribeToSliderMoveEvents
    \/ \E s \in DeliverLines : DeliverLine(s)
    \/ deliverMoveEvents
    \/ \E c \in 1..Len(sliderMoveConsumers) : ConsumerRecv(c)

SpecDeliver == Init /\ [][NextDeliver]_vars

-----------------------------------------------------------------------------
(* The master volume monitor: the goroutine of startMasterVolumeMonitor,   *)
(* one tick of its ticker per step, and the master session changing under  *)
(* it.  A volume is a float32 scalar in the code, thousandths here.        *)

Volumes == {0, 505, 1000}

\* the master session is changed by the user or another program, comes or goes
MasterChanges ==
    /\ \E present \in BOOLEAN, volume \in Volumes, mute \in BOOLEAN :
          /\ masterSession' = [present |-> present, volume |-> volume, mute |-> mute]
          /\ masterSession' # masterSession
    /\ UNCHANGED <<decVars, serialVars, deliverVars, finderVars, laterVars, lastVolume,
                   lastMute, stableCounter, currentInterval, monitorMsgs, ticked,
                   stableRun>>

\* int(currentVolume * 100)
VolumePercent(volume) == volume \div 10

\* the message carrying the volume scalar as it is read
MasterMessageOfScalar(mute, volume) ==
    [muteState |-> IF mute THEN 1 ELSE 0, volumePercent |-> volume]

\* fmt.Sprintf("<!%d|%d>", muteState, volumePercent)
MasterMessage(mute, volume) ==
    [muteState |-> IF mute THEN 1 ELSE 0, volumePercent |-> VolumePercent(volume)]

\* case <-ticker.C of the monitor, up to the message handed to SendToArduino
monitorTick ==
    /\ ticked' = ~ticked
    /\ IF ~masterSession.present
       THEN \* !ok || len(sessions) == 0: continue
            /\ monitorMsgs' = <<>>
            /\ UNCHANGED <<lastVolume, lastMute, stableCounter, currentInterval,
                           stableRun>>
       ELSE IF lastVolume # masterSession.volume \/ masterSession.mute # lastMute
       THEN /\ lastVolume' = masterSession.volume
            /\ lastMute' = masterSession.mute
            /\ stableCounter' = 0
            /\ stableRun' = 0
            /\ monitorMsgs' = <<MasterMessage(masterSession.mute, masterSession.volume)>>
            /\ currentInterval' = IF currentInterval # highFreqInterval
                                  THEN highFreqInterval ELSE currentInterval
       ELSE /\ stableCounter < MaxStable
            /\ stableCounter' = stableCounter + 1
            /\ stableRun' = stableRun + 1
            /\ monitorMsgs' = <<>>
            /\ currentInterval' =
                  IF stableCounter + 1 >= stableThreshold
                     /\ currentInterval # lowFreqInterval
                  THEN lowFreqInterval ELSE currentInterval
            /\ UNCHANGED <<lastVolume, lastMute>>

\* a tick whose change branch forgets the stability counter
MonitorTickKeepsCounter ==
    /\ ticked' = ~ticked
    /\ IF ~masterSession.present
       THEN UNCHANGED <<lastVolume, lastMute, stableCounter, currentInterval, stableRun>>
            /\ monitorMsgs' = <<>>
       ELSE IF lastVolume # masterSession.volume \/ masterSession.mute # lastMute
       THEN /\ lastVolume' = masterSession.volume
            /\ lastMute' = masterSession.mute
            /\ UNCHANGED stableCounter
            /\ stableRun' = 0
            /\ monitorMsgs' = <<MasterMessage(masterSession.mute, masterSession.volume)>>
            /\ currentInterval' = highFreqInterval
       ELSE /\ stableCounter < MaxStable
            /\ stableCounter' = stableCounter + 1
            /\ stableRun' = stableRun + 1
            /\ monitorMsgs' = <<>>
            /\ currentInterval' = currentInterval
            /\ UNCHANGED <<lastVolume, lastMute>>
    /\ UNCHANGED <<decVars, serialVars, deliverVars, finderVars, laterVars, masterSession>>

\* the monitor by itself: the tick, whatever becomes of the message
MonitorTick ==
    /\ monitorTick
    /\ UNCHANGED <<decVars, serialVars, deliverVars, finderVars, laterVars, masterSession>>

NextMonitor ==
    \/ MasterChanges
    \/ MonitorTick

SpecMonitor == Init /\ [][NextMonitor]_vars

-----------------------------------------------------------------------------
(* The monitor on the link: the update of a tick goes through              *)
(* SendToArduino, which the state of the link decides, and the link is     *)
(* made and lost under it.                                                 *)

\* what is left alone by a write to the device
sendFrame == <<decVars, portPresent, comPort, baudRate, connVars, openVars,
               lineVars, taskVars, loopVars, cfgVars, spawnVars, pc, startErr,
               stopSignal, deliverVars, finderVars, besideMasterLink>>

\* d.serial.SendToArduino(message) with a master state: the device has it
\* once the write returned nil
sendMasterState(message) ==
    /\ SendToArduino("!")
    /\ deviceMaster' = IF ~SendRefuses /\ portPresent THEN message
                       ELSE deviceMaster

\* case <-ticker.C of the monitor with its d.serial.SendToArduino(message),
\* whose error is dropped
MonitorTickOnLink ==
    /\ monitorTick
    /\ IF monitorMsgs' # <<>>
       THEN sendMasterState(monitorMsgs'[1])
       ELSE UNCHANGED <<sent, wireVars, deviceMaster>>
    /\ UNCHANGED <<sendFrame, masterSession>>

\* Deej.SendInitialMasterVolume, called by initializeArduino
SendInitialMasterVolume ==
    /\ masterSession.present
    /\ sendMasterState(MasterMessage(masterSession.mute, masterSession.volume))
    /\ UNCHANGED <<sendFrame, monitorVars>>

\* connect() opens the port: sio.conn = conn; sio.connected = true
LinkConnects ==
    /\ ~connected /\ portPresent
    /\ connected' = TRUE
    /\ conn' = 1
    /\ handles' = {1}
    /\ UNCHANGED <<decVars, portPresent, fixedVars, reading, openVars, lineVars,
                   wireVars, taskVars, loopVars, cfgVars, spawnVars, pc, startErr,
                   stopSignal, sent>>

\* close(): sio.conn = nil; sio.connected = false
LinkCloses ==
    /\ connected
    /\ connected' = FALSE
    /\ conn' = 0
    /\ handles' = {}
    /\ UNCHANGED <<decVars, portPresent, fixedVars, reading, openVars, lineVars,
                   wireVars, taskVars, loopVars, cfgVars, spawnVars, pc, startErr,
                   stopSignal, sent>>

NextMonitorLink ==
    \/ MasterChanges
    \/ MonitorTickOnLink
    \/ SendInitialMasterVolume
    \/ LinkConnects
    \/ LinkCloses

SpecMonitorLink == Init /\ [][NextMonitorLink]_vars

-----------------------------------------------------------------------------
(* The session finder (wcaSessionFinder): getAllSessionsInternal as it is  *)
(* run for GetAllSessions and for the health check of monitorConnection,   *)
(* one step per native call that can fail, and the default-device-change   *)
(* callback.  A native call that can fail does so or not, at will.         *)

othersVars == <<decVars, serialVars, deliverVars, monitorVars, laterVars>>

\* withRetry's maxRetries and the callback's threshold in ms
maxRetries == 3
minDefaultDeviceChangeThreshold == 100

Range(q) == { q[i] : i \in 1..Len(q) }

isConnected == mmDeviceEnumerator /\ mmNotificationClient # "nil"

\* getAllSessionsInternal is executing for p
Executing(p) == pass[p].pc \notin {"idle", "return"}

\* return nil, err
Fail(p) ==
    [pass[p] EXCEPT !.pc = "return", !.err = TRUE, !.sessions = <<>>,
                    !.live = <<>>]

\* GetAllSessions is called: sessions, err := sf.getAllSessionsInternal()
GetAllSessions ==
    /\ pass["get"].pc = "idle"
    /\ passes < MaxPasses
    /\ pass' = [pass EXCEPT !["get"] = [NoPass EXCEPT !.pc = "com"]]
    /\ passes' = passes + 1
    /\ UNCHANGED <<othersVars, mmDeviceEnumerator, mmNotificationClient,
                   masterOut, masterIn, lastDefaultDeviceChange, clock,
                   nextSession, releasedSessions, staleSessions, getResult,
                   routerMasters, notified>>

\* monitorConnection: case <-ticker.C with !sf.isConnected()
monitorConnection ==
    /\ ~monitorReturned
    /\ pass["health"].pc = "idle"
    /\ ~isConnected
    /\ passes < MaxPasses
    /\ pass' = [pass EXCEPT !["health"] = [NoPass EXCEPT !.pc = "com"]]
    /\ passes' = passes + 1
    /\ UNCHANGED <<othersVars, mmDeviceEnumerator, mmNotificationClient,
                   masterOut, masterIn, lastDefaultDeviceChange, clock,
                   nextSession, releasedSessions, staleSessions, getResult,
                   routerMasters, notified>>

\* sf.initializeCOM()
initializeCOM(p, ok) ==
    /\ pass[p].pc = "com"
    /\ pass' = [pass EXCEPT ![p] =
                  IF ok THEN [@ EXCEPT !.pc = "connect"] ELSE Fail(p)]
    /\ UNCHANGED <<othersVars, mmDeviceEnumerator, mmNotificationClient,
                   masterOut, masterIn, lastDefaultDeviceChange, clock, passes,
                   nextSession, releasedSessions, staleSessions, getResult,
                   routerMasters, notified>>

\* if !sf.isConnected(): getDeviceEnumerator, which creates the enumerator
\* if there is none, then registerDefaultDeviceChangeCallback, which sets
\* sf.mmNotificationClient before it registers it
connectFinder(p, outcome) ==
    /\ pass[p].pc = "connect"
    /\ IF isConnected
       THEN /\ outcome = "ok"
            /\ pass' = [pass EXCEPT ![p].pc = "endpoints"]
            /\ UNCHANGED <<mmDeviceEnumerator, mmNotificationClient>>
       ELSE CASE outcome = "noEnumerator" ->
                   /\ ~mmDeviceEnumerator
                   /\ pass' = [pass EXCEPT ![p] = Fail(p)]
                   /\ UNCHANGED <<mmDeviceEnumerator, mmNotificationClient>>
              [] outcome = "noRegister" ->
                   /\ mmDeviceEnumerator' = TRUE
                   /\ mmNotificationClient' = "set"
                   /\ pass' = [pass EXCEPT ![p] = Fail(p)]
              [] outcome = "ok" ->
                   /\ mmDeviceEnumerator' = TRUE
                   /\ mmNotificationClient' = "registered"
                   /\ pass' = [pass EXCEPT ![p].pc = "endpoints"]
    /\ UNCHANGED <<othersVars, masterOut, masterIn, lastDefaultDeviceChange,
                   clock, passes, nextSession, releasedSessions, staleSessions,
                   getResult, routerMasters, notified>>

\* sf.getDefaultAudioEndpoints(): the output endpoint must be there, the
\* input endpoint may be missing
getDefaultAudioEndpoints(p, ok, input) ==
    /\ pass[p].pc = "endpoints"
    /\ pass' = [pass EXCEPT ![p] =
                  IF ok THEN [@ EXCEPT !.pc = "masterOut", !.input = input]
                  ELSE Fail(p)]
    /\ (~ok => ~input)
    /\ UNCHANGED <<othersVars, mmDeviceEnumerator, mmNotificationClient,
                   masterOut, masterIn, lastDefaultDeviceChange, clock, passes,
                   nextSession, releasedSessions, staleSessions, getResult,
                   routerMasters, notified>>

\* setupMasterSessions, first half:
\* sf.masterOut, err = sf.getMasterSession(defaultOutputEndpoint, ...)
setupMasterOut(p, ok) ==
    /\ pass[p].pc = "masterOut"
    /\ IF ok
       THEN /\ nextSession < MaxSessions
            /\ nextSession' = nextSession + 1
            /\ masterOut' = nextSession + 1
            /\ pass' = [pass EXCEPT ![p].pc = "masterIn",
                                    ![p].sessions = Append(@, nextSession + 1),
                                    ![p].live = Append(@, LiveMasterOut),
                                    ![p].created = @ \cup {nextSession + 1}]
       ELSE /\ masterOut' = 0
            /\ pass' = [pass EXCEPT ![p] = Fail(p)]
            /\ UNCHANGED nextSession
    /\ UNCHANGED <<othersVars, mmDeviceEnumerator, mmNotificationClient,
                   masterIn, lastDefaultDeviceChange, clock, passes,
                   releasedSessions, staleSessions, getResult, routerMasters,
                   notified>>

\* setupMasterSessions, second half: if defaultInputEndpoint != nil,
\* sf.masterIn, err = sf.getMasterSession(defaultInputEndpoint, ...)
setupMasterIn(p, ok) ==
    /\ pass[p].pc = "masterIn"
    /\ IF ~pass[p].input
       THEN /\ ok
            /\ pass' = [pass EXCEPT ![p].pc = "enumerate"]
            /\ UNCHANGED <<masterIn, nextSession>>
       ELSE IF ok
       THEN /\ nextSession < MaxSessions
            /\ nextSession' = nextSession + 1
            /\ masterIn' = nextSession + 1
            /\ pass' = [pass EXCEPT ![p].pc = "enumerate",
                                    ![p].sessions = Append(@, nextSession + 1),
                                    ![p].live = Append(@, LiveMasterIn),
                                    ![p].created = @ \cup {nextSession + 1}]
       ELSE /\ masterIn' = 0
            /\ pass' = [pass EXCEPT ![p] = Fail(p)]
            /\ UNCHANGED nextSession
    /\ UNCHANGED <<othersVars, mmDeviceEnumerator, mmNotificationClient,
                   masterOut, lastDefaultDeviceChange, clock, passes,
                   releasedSessions, staleSessions, getResult, routerMasters,
                   notified>>

\* enumerateAndAddSessions: one attempt of withRetry; it appends the n device
\* and process sessions it gets to before it ends, well or not, to the
\* sessions the attempts before it left, and after maxRetries failed
\* attempts the pass returns nil and the error
enumerateAndAddSessions(p, n, ok) ==
    /\ pass[p].pc = "enumerate"
    /\ nextSession + n <= MaxSessions
    /\ nextSession' = nextSession + n
    /\ LET new == [i \in 1..n |-> nextSession + i]
           grown == [pass[p] EXCEPT !.sessions = @ \o new,
                                    !.live = @ \o [i \in 1..n |-> i],
                                    !.created = @ \cup Range(new)]
       IN  pass' = [pass EXCEPT ![p] =
                      IF ok THEN [grown EXCEPT !.pc = "return"]
                      ELSE IF grown.retries + 1 = maxRetries
                      THEN [grown EXCEPT !.pc = "return", !.err = TRUE,
                                         !.sessions = <<>>, !.live = <<>>,
                                         !.retries = @ + 1]
                      ELSE [grown EXCEPT !.retries = @ + 1]]
    /\ UNCHANGED <<othersVars, mmDeviceEnumerator, mmNotificationClient,
                   masterOut, masterIn, lastDefaultDeviceChange, clock, passes,
                   releasedSessions, staleSessions, getResult, routerMasters,
                   notified>>

\* the master sessions at the head of a pass's result
MastersOf(r) ==
    IF r.err THEN {}
    ELSE {r.sessions[1]} \cup (IF r.input THEN {r.sessions[2]} ELSE {})

\* GetAllSessions after getAllSessionsInternal returned: on an error,
\* cleanup(sessions) and return nil, err; else hand out the sessions
GetAllSessionsReturns ==
    /\ pass["get"].pc = "return"
    /\ releasedSessions' =
          IF pass["get"].err
          THEN releasedSessions \cup Range(pass["get"].sessions)
          ELSE releasedSessions
    /\ getResult' = [err |-> IF pass["get"].err THEN "error" ELSE "nil",
                     created |-> pass["get"].created,
                     masters |-> MastersOf(pass["get"])]
    /\ routerMasters' =
          IF pass["get"].err THEN routerMasters ELSE MastersOf(pass["get"])
    /\ pass' = [pass EXCEPT !["get"] = NoPass]
    /\ UNCHANGED <<othersVars, mmDeviceEnumerator, mmNotificationClient,
                   masterOut, masterIn, lastDefaultDeviceChange, clock, passes,
                   nextSession, staleSessions, notified>>

\* monitorConnection after its pass: the sessions are dropped, an error is logged
monitorConnectionReturns ==
    /\ pass["health"].pc = "return"
    /\ pass' = [pass EXCEPT !["health"] = NoPass]
    /\ UNCHANGED <<othersVars, mmDeviceEnumerator, mmNotificationClient,
                   masterOut, masterIn, lastDefaultDeviceChange, clock, passes,
                   nextSession, releasedSessions, staleSessions, getResult,
                   routerMasters, notified>>

\* monitorConnection: case <-sf.ctx.Done(), which select may choose once
\* the context is cancelled; with a tick in ticker.C as well it may as
\* well choose the tick
monitorConnectionDone ==
    /\ ctxDone
    /\ ~monitorReturned
    /\ pass["health"].pc = "idle"
    /\ monitorReturned' = TRUE
    /\ UNCHANGED <<decVars, serialVars, deliverVars, monitorVars, finderVars,
                   besideRelease, ctxDone>>

\* sf.Release(): sf.cancel(), then the callback is unregistered and the
\* enumerator released if the finder is connected, then the master sessions
\* are released; it waits for no goroutine and for no pass
Release ==
    /\ ~ctxDone
    /\ ctxDone' = TRUE
    /\ mmNotificationClient' = IF isConnected THEN "nil" ELSE mmNotificationClient
    /\ mmDeviceEnumerator' = IF isConnected THEN FALSE ELSE mmDeviceEnumerator
    /\ releasedSessions' = releasedSessions \cup ({masterOut, masterIn} \ {0})
    /\ UNCHANGED <<decVars, serialVars, deliverVars, monitorVars, besideRelease,
                   monitorReturned, masterOut, masterIn,
                   lastDefaultDeviceChange, clock, pass, passes, nextSession,
                   staleSessions, getResult, routerMasters, notified>>

\* a callback that lets the threshold itself count as too soon
TooSoonAtThreshold ==
    lastDefaultDeviceChange + minDefaultDeviceChangeThreshold >= clock

\* sf.lastDefaultDeviceChange.Add(minDefaultDeviceChangeThreshold).After(now)
TooSoon == lastDefaultDeviceChange + minDefaultDeviceChangeThreshold > clock

\* defaultDeviceChangedCallback, called by the OS once the client is registered
defaultDeviceChangedCallback ==
    /\ mmNotificationClient = "registered"
    /\ IF TooSoon
       THEN /\ notified' = [at |-> clock, gap |-> clock - notified.at,
                            sinceProcessed |-> clock - lastDefaultDeviceChange,
                            did |-> "ignored", marked |-> {},
                            first |-> notified.did = "none",
                            held |-> routerMasters]
            /\ UNCHANGED <<lastDefaultDeviceChange, staleSessions>>
       ELSE /\ lastDefaultDeviceChange' = clock
            /\ staleSessions' = staleSessions \cup ({masterOut, masterIn} \ {0})
            /\ notified' = [at |-> clock, gap |-> clock - notified.at,
                            sinceProcessed |-> clock - lastDefaultDeviceChange,
                            did |-> "processed",
                            marked |-> {masterOut, masterIn} \ {0},
                            first |-> notified.did = "none",
                            held |-> routerMasters]
    /\ UNCHANGED <<othersVars, mmDeviceEnumerator, mmNotificationClient,
                   masterOut, masterIn, clock, pass, passes, nextSession,
                   releasedSessions, getResult, routerMasters>>

\* the grain of the clock, in milliseconds
Tick == 50

\* time passes
ClockAdvances ==
    /\ clock + Tick <= StartOfClock + MaxTicks * Tick
    /\ clock' = clock + Tick
    /\ UNCHANGED <<othersVars, mmDeviceEnumerator, mmNotificationClient,
                   masterOut, masterIn, lastDefaultDeviceChange, pass, passes,
                   nextSession, releasedSessions, staleSessions, getResult,
                   routerMasters, notified>>

NextFinder ==
    \/ GetAllSessions
    \/ monitorConnection
    \/ \E p \in {"get", "health"}, ok \in BOOLEAN : initializeCOM(p, ok)
    \/ \E p \in {"get", "health"}, outcome \in {"ok", "noEnumerator", "noRegister"} :
          connectFinder(p, outcome)
    \/ \E p \in {"get", "health"}, ok \in BOOLEAN, input \in BOOLEAN :
          getDefaultAudioEndpoints(p, ok, input)
    \/ \E p \in {"get", "health"}, ok \in BOOLEAN : setupMasterOut(p, ok)
    \/ \E p \in {"get", "health"}, ok \in BOOLEAN : setupMasterIn(p, ok)
    \/ \E p \in {"get", "health"}, n \in 0..1, ok \in BOOLEAN :
          enumerateAndAddSessions(p, n, ok)
    \/ GetAllSessionsReturns
    \/ monitorConnectionReturns
    \/ defaultDeviceChangedCallback

SpecFinder == Init /\ [][NextFinder]_vars

\* The finder to its end: the passes, Release() and the health check's exit
NextRelease ==
    \/ NextFinder
    \/ Release
    \/ monitorConnectionDone

SpecRelease == Init /\ [][NextRelease]_vars

\* The router's passes alone, the notifications and the clock
NextDebounce ==
    \/ GetAllSessions
    \/ \E ok \in BOOLEAN : initializeCOM("get", ok)
    \/ \E outcome \in {"ok", "noEnumerator", "noRegister"} :
          connectFinder("get", outcome)
    \/ \E ok \in BOOLEAN, input \in BOOLEAN :
          getDefaultAudioEndpoints("get", ok, input)
    \/ \E ok \in BOOLEAN : setupMasterOut("get", ok)
    \/ \E ok \in BOOLEAN : setupMasterIn("get", ok)
    \/ \E n \in 0..1, ok \in BOOLEAN : enumerateAndAddSessions("get", n, ok)
    \/ GetAllSessionsReturns
    \/ defaultDeviceChangedCallback
    \/ ClockAdvances

SpecDebounce == Init /\ [][NextDebounce]_vars

\* C17: when GetAllSessions returns an error, every native session created
\* during that pass has been released before the error is returned.
C17_FailedPassReleasesHandles ==
    getResult.err = "error" => getResult.created \subseteq releasedSessions

\* C18: an accepted default-device-change notification marks stale exactly
\* the master sessions handed out by the most recent successful pass, and
\* releases none of them.
C18_AcceptedNotificationMarksRouterMasters ==
    notified.did = "processed" =>
        /\ notified.marked = notified.held
        /\ notified.marked \cap releasedSessions = {}

\* C19: a notification less than 100 ms after the previous notification is
\* ignored, one 100 ms or more after the previous one is processed, and the
\* first notification ever is processed.
C19_DebounceOnPreviousNotification ==
    /\ (notified.did # "none" /\ notified.first) => notified.did = "processed"
    /\ (notified.did # "none" /\ ~notified.first) =>
          (notified.did = "ignored" <=> notified.gap < 100)
    /\ notified.did = "ignored" => notified.marked = {}

\* C19, amended: a notification less than 100 ms after the previous PROCESSED
\* notification is ignored and marks nothing stale, one 100 ms or more after
\* it is processed, and the first notification ever is processed.
C19_DebounceOnPreviousProcessed ==
    /\ (notified.did # "none" /\ notified.first) => notified.did = "processed"
    /\ (notified.did # "none" /\ ~notified.first) =>
          (notified.did = "ignored" <=> notified.sinceProcessed < 100)
    /\ notified.did = "ignored" => notified.marked = {}
    /\ notified.did = "processed" => lastDefaultDeviceChange = notified.at

\* a notification was processed 100 ms after the processed one before it,
\* with an ignored notification in between
C19_Witness ==
    /\ notified.did = "processed"
    /\ ~notified.first
    /\ notified.sinceProcessed = 100
    /\ notified.gap = 50

\* C20: at most one enumeration pass is executing at any time; the health
\* check's pass never overlaps a pass requested through GetAllSessions.
C20_OnePassAtATime == ~(Executing("get") /\ Executing("health"))

-----------------------------------------------------------------------------
(* processAudioSessions: the per-process sessions of one output device.    *)
(* What the OS and newWCASession answer for a session is its kind.         *)

\* the state of everything set up before
baseVars == <<decVars, serialVars, deliverVars, monitorVars, finderVars>>

\* "live": a session is made; "exited": newWCASession returns
\* errNoSuchProcess; the others: the call named fails
SessionKinds == {"live", "exited", "noControl", "noVolume", "noPid", "noSession"}

RECURSIVE SeqsUpTo(_, _)
SeqsUpTo(S, n) ==
    IF n = 0 THEN {<<>>}
    ELSE LET shorter == SeqsUpTo(S, n - 1)
         IN  shorter \cup { Append(q, x) : q \in { r \in shorter : Len(r) = n - 1 }, x \in S }

Handles(idx) == {<<idx, "control">>, <<idx, "volume">>}

\* processAudioSessions: sessionEnumerator.GetCount(&sessionCount)
processAudioSessions(kinds) ==
    /\ processErr = "idle"
    /\ sessionKinds' = kinds
    /\ processErr' = "running"
    /\ UNCHANGED <<baseVars, besideEnum, sessionIdx, sessions, rawHandles, releasedHandles>>

\* a processSession that forgets the branch of errNoSuchProcess
processSessionExitedFails ==
    /\ processErr = "running"
    /\ sessionIdx < Len(sessionKinds)
    /\ LET kind == sessionKinds[sessionIdx + 1] IN
       /\ sessions' = IF kind = "live" THEN Append(sessions, sessionIdx) ELSE sessions
       /\ rawHandles' = IF kind \in {"noSession", "exited"}
                        THEN rawHandles \cup Handles(sessionIdx)
                        ELSE rawHandles
       /\ releasedHandles' =
             CASE kind = "noVolume" -> releasedHandles \cup {<<sessionIdx, "control">>}
               [] kind = "noPid" -> releasedHandles \cup Handles(sessionIdx)
               [] OTHER -> releasedHandles
       /\ processErr' = IF kind = "live" THEN "running" ELSE "error"
       /\ sessionIdx' = IF kind = "live" THEN sessionIdx + 1 ELSE sessionIdx
    /\ UNCHANGED <<baseVars, besideEnum, sessionKinds>>

\* one turn of the loop: processSession(sessionIdx, sessionEnumerator, sessions)
processSession ==
    /\ processErr = "running"
    /\ sessionIdx < Len(sessionKinds)
    /\ LET kind == sessionKinds[sessionIdx + 1] IN
       /\ sessions' = IF kind = "live" THEN Append(sessions, sessionIdx) ELSE sessions
       /\ rawHandles' = IF kind = "noSession"
                        THEN rawHandles \cup Handles(sessionIdx)
                        ELSE rawHandles
       /\ releasedHandles' =
             CASE kind = "noVolume" -> releasedHandles \cup {<<sessionIdx, "control">>}
               [] kind \in {"noPid", "exited"} -> releasedHandles \cup Handles(sessionIdx)
               [] OTHER -> releasedHandles
       /\ processErr' = IF kind \in {"live", "exited"} THEN "running" ELSE "error"
       /\ sessionIdx' = IF kind \in {"live", "exited"} THEN sessionIdx + 1 ELSE sessionIdx
    /\ UNCHANGED <<baseVars, besideEnum, sessionKinds>>

\* the loop is over: return nil
processAudioSessionsReturns ==
    /\ processErr = "running"
    /\ sessionIdx = Len(sessionKinds)
    /\ processErr' = "nil"
    /\ UNCHANGED <<baseVars, besideEnum, sessionKinds, sessionIdx, sessions, rawHandles,
                   releasedHandles>>

NextSessions ==
    \/ \E kinds \in SeqsUpTo(SessionKinds, MaxAudioSessions) : processAudioSessions(kinds)
    \/ processSession
    \/ processAudioSessionsReturns

SpecSessions == Init /\ [][NextSessions]_vars

\* the indices of the sessions of kind k among the first n
RECURSIVE IndicesOf(_, _, _)
IndicesOf(kinds, k, n) ==
    IF n = 0 THEN <<>>
    ELSE IF kinds[n] = k THEN Append(IndicesOf(kinds, k, n - 1), n - 1)
    ELSE IndicesOf(kinds, k, n - 1)

\* C22: a session whose process has exited is skipped without failing the
\* pass: its two handles are released, it is not in the returned set, and
\* the other sessions of the pass are returned.
C22_ExitedProcessSkipped ==
    /\ \A i \in 0..(sessionIdx - 1) :
          sessionKinds[i + 1] = "exited" =>
             /\ Handles(i) \subseteq releasedHandles
             /\ Handles(i) \cap rawHandles = {}
             /\ \A j \in 1..Len(sessions) : sessions[j] # i
    /\ (processErr \in {"running", "nil"}) =>
          sessions = IndicesOf(sessionKinds, "live", sessionIdx)
    /\ processErr = "error" =>
          sessionKinds[sessionIdx + 1] \notin {"live", "exited"}
    /\ processErr = "nil" => sessionIdx = Len(sessionKinds)

\* a pass over a live, an exited and a live session has returned nil
C22_Witness ==
    /\ processErr = "nil"
    /\ sessionKinds = <<"live", "exited", "live">>
    /\ sessions = <<0, 2>>

-----------------------------------------------------------------------------
(* connect() of the SerialIO with a retry budget (part_002), called by     *)
(* Start and by the reconnection goroutine while sio.connected is false.   *)

\* NewSerialIO: maxRetries: 5
sioMaxRetries == 5

\* a call of connect() while disconnected
connect ==
    /\ connectPc = "idle"
    /\ connectCalls < MaxCalls
    /\ connectCalls' = connectCalls + 1
    /\ connectPc' = "open"
    /\ opens' = 0
    /\ connectErr' = "none"
    /\ UNCHANGED <<baseVars, besideRetry, retryCount>>

\* sio.conn, err = serial.Open(sio.connOptions) and what follows it: on an
\* error retryCount++, then the terminal error or, after the backoff,
\* connect() again; on success retryCount = 0
connectOpen(ok) ==
    /\ connectPc = "open"
    /\ opens' = opens + 1
    /\ IF ok
       THEN /\ retryCount' = 0
            /\ connectErr' = "nil"
            /\ connectPc' = "idle"
       ELSE /\ retryCount' = retryCount + 1
            /\ IF retryCount + 1 > sioMaxRetries
               THEN connectErr' = "max retries reached" /\ connectPc' = "idle"
               ELSE UNCHANGED <<connectErr, connectPc>>
    /\ UNCHANGED <<baseVars, besideRetry, connectCalls>>

NextRetry ==
    \/ connect
    \/ \E ok \in BOOLEAN : connectOpen(ok)

SpecRetry == Init /\ [][NextRetry]_vars

\* C23: the retry budget is per connection attempt: every call of connect()
\* retries the open maxRetries times before it returns the terminal error,
\* however earlier calls ended.
C23_RetryBudgetPerAttempt ==
    connectErr = "max retries reached" => opens = 1 + sioMaxRetries

-----------------------------------------------------------------------------
(* The device: the sketch's loop(), which reads one message between the    *)
(* markers, parses it, checks the keep-alive timeout and draws.            *)

\* receiveWithStartEndMarkers over the bytes of one message: what is in
\* receivedChars when the end marker comes
min(a, b) == IF a < b THEN a ELSE b

\* the least member of a set of numbers that is not empty
Least(S) == CHOOSE x \in S : \A y \in S : x <= y

\* receiveWithStartEndMarkers over the bytes of one message: the bytes
\* before the start marker are dropped, those up to the end marker are
\* stored, and ndx stops at SERIAL_BUFFER_SIZE - 1, where the terminating
\* zero goes
receiveWithStartEndMarkers(bytes) ==
    LET starts == { i \in 1..Len(bytes) : bytes[i] = "<" } IN
    IF starts = {} THEN [newData |-> FALSE, chars |-> <<>>]
    ELSE LET ends == { i \in (Least(starts) + 1)..Len(bytes) : bytes[i] = ">" } IN
         IF ends = {} THEN [newData |-> FALSE, chars |-> <<>>]
         ELSE [newData |-> TRUE,
               chars |-> SubSeq(bytes, Least(starts) + 1,
                                min(Least(ends) - 1,
                                    Least(starts) + SERIAL_BUFFER_SIZE - 1))]

\* the tokens strtok(data, "|") gives one after the other: the runs of
\* bytes between delimiters that are not empty
strtok(data) ==
    LET begins == { i \in 1..Len(data) :
                      data[i] # "|" /\ (i = 1 \/ data[i - 1] = "|") }
        begin(k) == CHOOSE b \in begins : Cardinality({ c \in begins : c < b }) = k - 1
        end(b) == Least({ j \in (b + 1)..(Len(data) + 1) :
                            j = Len(data) + 1 \/ data[j] = "|" }) - 1
    IN  [k \in 1..Cardinality(begins) |-> SubSeq(data, begin(k), end(begin(k)))]

\* atoi: the value of the leading digits
RECURSIVE atoiFrom(_, _, _)
atoiFrom(t, i, n) ==
    IF i > Len(t) \/ t[i] \notin Digits THEN n
    ELSE atoiFrom(t, i + 1, 10 * n + DigitVal(t[i]))

atoi(t) == atoiFrom(t, 1, 0)

constrain(x, lo, hi) == IF x < lo THEN lo ELSE IF x > hi THEN hi ELSE x

\* case '^': the first MAX_SLIDERS tokens, each cut to SLIDER_NAME_LENGTH - 1
\* bytes, stored from index 0 on
parseNames(names, data) ==
    LET tokens == strtok(data) IN
    [i \in 1..MAX_SLIDERS |->
        IF i <= Len(tokens)
        THEN SubSeq(tokens[i], 1, min(Len(tokens[i]), SLIDER_NAME_LENGTH - 1))
        ELSE names[i]]

\* parseReceivedData on tempChars at time now: the new state, the new
\* keepAlive and the command
parseReceivedData(st, last, chars, now) ==
    IF Len(chars) < 1 THEN [st |-> st, keepAlive |-> last, cmd |-> "empty"]
    ELSE LET command == chars[1]
             data == Tail(chars)
         IN  CASE command = "!" ->
                    LET tokens == strtok(data) IN
                    IF Len(tokens) < 2
                    THEN [st |-> st, keepAlive |-> last, cmd |-> "!"]
                    ELSE [st |-> [st EXCEPT !.mute = constrain(atoi(tokens[1]), 0, 1),
                                            !.masterVolume = constrain(atoi(tokens[2]), 0, 100),
                                            !.dataChanged = TRUE],
                          keepAlive |-> last, cmd |-> "!"]
               [] command = "^" ->
                    [st |-> [st EXCEPT !.sliderNames = parseNames(@, data),
                                       !.dataChanged = TRUE],
                     keepAlive |-> last, cmd |-> "^"]
               [] command = "#" ->
                    [st |-> IF st.screensActive THEN st
                            ELSE [st EXCEPT !.screensActive = TRUE, !.dataChanged = TRUE],
                     keepAlive |-> now, cmd |-> "#"]
               [] OTHER -> [st |-> st, keepAlive |-> last, cmd |-> "?"]

\* a timeout that waits twice as long
TimedOutLate(now, last) == now - last > 2 * CONFIG_KEEPALIVE_TIMEOUT

\* millis() - keepAlive > CONFIG_KEEPALIVE_TIMEOUT
TimedOut(now, last) == now - last > CONFIG_KEEPALIVE_TIMEOUT

\* the grain of the device's clock in ms
DeviceStep == 5000

\* one pass of loop(), dt ms after the one before; moved: a slider's
\* reading has changed
loop(dt, moved) ==
    /\ millis + dt <= MaxLoops * DeviceStep
    /\ millis' = millis + dt
    /\ LET now == millis + dt
           got == IF rx = <<>> THEN [newData |-> FALSE, chars |-> <<>>]
                  ELSE receiveWithStartEndMarkers(Head(rx))
           p == IF got.newData THEN parseReceivedData(state, keepAlive, got.chars, now)
                ELSE [st |-> state, keepAlive |-> keepAlive, cmd |-> "none"]
           s1 == IF moved THEN [p.st EXCEPT !.dataChanged = TRUE] ELSE p.st
           blank == TimedOut(now, p.keepAlive) /\ s1.screensActive
           s2 == IF blank THEN [s1 EXCEPT !.screensActive = FALSE] ELSE s1
           draw == s2.screensActive /\ s2.dataChanged
       IN  /\ rx' = IF rx = <<>> THEN rx ELSE Tail(rx)
           /\ keepAlive' = p.keepAlive
           /\ parsed' = p.cmd
           /\ state' = IF draw THEN [s2 EXCEPT !.dataChanged = FALSE] ELSE s2
           /\ displayBlank' = IF draw THEN FALSE
                              ELSE IF blank THEN TRUE ELSE displayBlank
    /\ UNCHANGED <<baseVars, besideDevice, announced, hostSends>>

\* ---- the host
NameSamples == { <<"a">>, <<"b", "c">>, [i \in 1..(SLIDER_NAME_LENGTH - 1) |-> "n"] }

\* slider_names as a map from slider index to name
NameMaps == UNION { [S -> NameSamples] : S \in SUBSET (0..(MaxNames - 1)) }

\* populateFromVipers: the names in a slice of maxSliderIdx + 1 entries,
\* joined with "|"
SliderNamesOf(map) ==
    LET maxSliderIdx == IF DOMAIN map = {} THEN -1
                        ELSE CHOOSE x \in DOMAIN map : \A y \in DOMAIN map : y <= x
        sliderNames == [i \in 1..(maxSliderIdx + 1) |->
                          IF (i - 1) \in DOMAIN map THEN map[i - 1] ELSE <<>>]
    IN  Join(sliderNames)

\* sendSliderNamesToArduino with the names of a (re)loaded configuration
sendSliderNamesToArduino(map) ==
    /\ hostSends < MaxSends
    /\ Len(rx) < 1
    /\ hostSends' = hostSends + 1
    /\ IF SliderNamesOf(map) = <<>>
       THEN UNCHANGED <<rx, announced>>
       ELSE /\ rx' = Append(rx, <<"<", "^">> \o SliderNamesOf(map) \o <<">">>)
            /\ announced' = map
    /\ UNCHANGED <<baseVars, besideDevice, state, keepAlive, millis, displayBlank,
                   parsed>>

\* the keep-alive "<#>" and a master volume update "<!1|50>"
sendToDevice(message) ==
    /\ hostSends < MaxSends
    /\ Len(rx) < 1
    /\ hostSends' = hostSends + 1
    /\ rx' = Append(rx, message)
    /\ UNCHANGED <<baseVars, besideDevice, state, keepAlive, millis, displayBlank,
                   parsed, announced>>

\* the announcements of slider names and the device reading them
NextNames ==
    \/ \E map \in NameMaps : sendSliderNamesToArduino(map)
    \/ \E moved \in BOOLEAN : loop(0, moved)

SpecNames == Init /\ [][NextNames]_vars

\* what the host sends besides: the keep-alive, a master volume update, an
\* announcement of names
DeviceMessages ==
    { <<"<", "#", ">">>,
      <<"<", "!", "1", "|", "5", "0", ">">>,
      <<"<", "^", "a", "|", "b", "c", ">">> }

\* the device over time, with the host's messages arriving
NextDevice ==
    \/ \E message \in DeviceMessages : sendToDevice(message)
    \/ \E dt \in {0, DeviceStep}, moved \in BOOLEAN : loop(dt, moved)

SpecDevice == Init /\ [][NextDevice]_vars

\* C24: the names the device stores after parsing the announcement are the
\* configured names at the configured indices.
C24_SliderNamesRoundTrip ==
    (parsed = "^" /\ rx = <<>>) =>
        \A i \in DOMAIN announced : state.sliderNames[i + 1] = announced[i]

\* C26: the device blanks its displays once more than 10 s have passed
\* since the last keep-alive, keeps them blank until the next keep-alive,
\* which re-activates them, and no other message re-activates them.
C26_BlankWithoutKeepAlive ==
    [][ /\ state'.screensActive <=> (millis' - keepAlive' <= CONFIG_KEEPALIVE_TIMEOUT)
        /\ ~state'.screensActive => displayBlank'
        /\ (~state.screensActive /\ state'.screensActive) =>
              (parsed' = "#" /\ ~displayBlank')
        /\ (~state.screensActive /\ parsed' # "#") => ~state'.screensActive
      ]_vars

\* the only message of the run, a keep-alive, came after 20 s: the displays
\* had been blanked and are active again
C26_Witness ==
    /\ hostSends = 1
    /\ parsed = "#"
    /\ keepAlive = 4 * DeviceStep
    /\ state.screensActive
    /\ ~displayBlank

-----------------------------------------------------------------------------
(* The ceiling of a slider: populateFromVipers reads slider_max_volume,    *)
(* and a Set event is scaled by the ceiling of its slider.                 *)

\* the values a slider_max_volume entry can have after YAML decoding: an
\* int, a float64 (in tenths), a string, something else
MaxVolumeValues ==
    { [type |-> "int", v |-> -5], [type |-> "int", v |-> 0], [type |-> "int", v |-> 1],
      [type |-> "int", v |-> 50], [type |-> "int", v |-> 100],
      [type |-> "int", v |-> 101], [type |-> "float64", v |-> 505],
      [type |-> "float64", v |-> 5], [type |-> "float64", v |-> 2500],
      [type |-> "string", v |-> <<"3", "0">>], [type |-> "string", v |-> <<"3", "0", "0">>],
      [type |-> "string", v |-> <<"-", "5">>], [type |-> "string", v |-> <<"a">>],
      [type |-> "bool", v |-> TRUE] }

\* strconv.Atoi: an optional sign, then digits only
strconvAtoi(s) ==
    LET signed == Len(s) >= 1 /\ s[1] \in {"+", "-"}
        digits == IF signed THEN Tail(s) ELSE s
    IN  IF Len(digits) >= 1 /\ \A i \in 1..Len(digits) : digits[i] \in Digits
        THEN [ok |-> TRUE,
              n |-> IF signed /\ s[1] = "-" THEN 0 - AtoiDigits(digits, Len(digits))
                    ELSE AtoiDigits(digits, Len(digits))]
        ELSE [ok |-> FALSE, n |-> 0]

\* int(v) of a float64 given in tenths: towards zero
intOfTenths(t) == IF t >= 0 THEN t \div 10 ELSE 0 - ((0 - t) \div 10)

\* a ceiling taken as configured
maxVolumeUnclamped(maxVolume) == maxVolume

\* "Ensure the max volume is between 1 and 100"
clampMaxVolume(maxVolume) ==
    IF maxVolume < 1 THEN 1 ELSE IF maxVolume > 100 THEN 100 ELSE maxVolume

\* the entries populateFromVipers stores for a slider_max_volume map
populateMaxVolume(maxVolumeMap) ==
    LET kept == { i \in DOMAIN maxVolumeMap :
                    \/ maxVolumeMap[i].type \in {"int", "float64"}
                    \/ maxVolumeMap[i].type = "string" /\ strconvAtoi(maxVolumeMap[i].v).ok }
        raw(i) == CASE maxVolumeMap[i].type = "int" -> maxVolumeMap[i].v
                    [] maxVolumeMap[i].type = "float64" -> intOfTenths(maxVolumeMap[i].v)
                    [] OTHER -> strconvAtoi(maxVolumeMap[i].v).n
    IN  [i \in kept |-> clampMaxVolume(raw(i))]

\* a config (re)load: cc.SliderMaxVolume = make(map[int]int), then the entries
populateFromVipers(maxVolumeMap) ==
    /\ volumeSet = NoVolumeSet
    /\ SliderMaxVolume' = populateMaxVolume(maxVolumeMap)
    /\ UNCHANGED <<baseVars, besideCeiling, volumeSet>>

\* the ceiling the session map uses for a slider: 100 if none is configured
ceilingOf(slider) ==
    IF slider \in DOMAIN SliderMaxVolume THEN SliderMaxVolume[slider] ELSE 100

\* a Set event of value hundredths on a slider:
\* effective = event.value * ceiling / 100, here in ten-thousandths
handleSliderMoveEvent(slider, value) ==
    /\ volumeSet' = [slider |-> slider, value |-> value,
                     effective |-> value * ceilingOf(slider),
                     ceiling |-> ceilingOf(slider)]
    /\ UNCHANGED <<baseVars, besideCeiling, SliderMaxVolume>>

MaxVolumeMaps ==
    UNION { [S -> MaxVolumeValues] : S \in SUBSET (0..(MaxSliders - 1)) }

NextCeiling ==
    \/ \E maxVolumeMap \in MaxVolumeMaps : populateFromVipers(maxVolumeMap)
    \/ \E slider \in 0..MaxSliders, value \in {0, 50, 100} :
          handleSliderMoveEvent(slider, value)

SpecCeiling == Init /\ [][NextCeiling]_vars

\* C25: the ceiling of every slider is within 1..100, and a Set event of
\* value v on a slider of ceiling c sets the volume v * c / 100, which is
\* never above c / 100.
C25_CeilingBoundsVolume ==
    /\ \A i \in DOMAIN SliderMaxVolume : SliderMaxVolume[i] \in 1..100
    /\ volumeSet # NoVolumeSet =>
          /\ volumeSet.ceiling \in 1..100
          /\ volumeSet.effective = volumeSet.value * volumeSet.ceiling
          /\ volumeSet.effective <= 100 * volumeSet.ceiling
          /\ volumeSet.effective <= 10000

\* with ceilings 100 and 50 configured, the slider of ceiling 50 was moved
\* to the top and the volume 0.50 was set
C25_Witness ==
    /\ volumeSet.slider = 1 /\ volumeSet.value = 100 /\ volumeSet.effective = 5000
    /\ DOMAIN SliderMaxVolume = {0, 1}
    /\ SliderMaxVolume[0] = 100
    /\ SliderMaxVolume[1] = 50

-----------------------------------------------------------------------------
(* withRetry: the operation is invoked until it succeeds, maxRetries times *)
(* at most.                                                                *)

\* the errors the operation of enumerateAndAddSessions returns, and nil
OperationErrs ==
    { "enumerate active audio endpoints",
      "get device count from device collection",
      "process device" }

\* the loop going through all its iterations whatever the operation returns
withRetryKeepsOn(n, err) ==
    IF n = maxRetries THEN [pc |-> "done", err |-> err]
    ELSE [pc |-> "loop", err |-> "none"]

\* one iteration of the loop of withRetry, the n-th, in which operation()
\* returned err: return nil at once on success; on a failure go on, and
\* after the last iteration return the error that wraps lastErr
withRetryIteration(n, err) ==
    IF err = "nil" THEN [pc |-> "done", err |-> "nil"]
    ELSE IF n = maxRetries THEN [pc |-> "done", err |-> err]
    ELSE [pc |-> "loop", err |-> "none"]

\* withRetry(operation) is called
withRetry ==
    /\ withRetryPc \in {"idle", "done"}
    /\ withRetryCalls < MaxWithRetry
    /\ withRetryCalls' = withRetryCalls + 1
    /\ invocations' = <<>>
    /\ lastErr' = "nil"
    /\ withRetryPc' = "loop"
    /\ withRetryErr' = "none"
    /\ UNCHANGED <<baseVars, besideWithRetry>>

\* if err := operation(); err != nil { lastErr = err; ...; continue }
\* return nil
operation(err) ==
    /\ withRetryPc = "loop"
    /\ invocations' = Append(invocations, err)
    /\ lastErr' = IF err # "nil" THEN err ELSE lastErr
    /\ LET after == withRetryIteration(Len(invocations) + 1, err)
       IN  /\ withRetryPc' = after.pc
           /\ withRetryErr' = IF after.err \in {"none", "nil"} THEN after.err
                              ELSE lastErr'
    /\ UNCHANGED <<baseVars, besideWithRetry, withRetryCalls>>

NextWithRetry ==
    \/ withRetry
    \/ \E err \in OperationErrs \cup {"nil"} : operation(err)

SpecWithRetry == Init /\ [][NextWithRetry]_vars

\* C30: withRetry invokes the operation at most 3 times; it goes on only
\* after a failure, returns nil at the first invocation that succeeds, and
\* after 3 failed invocations returns the error wrapping the last failure.
C30_WithRetryBounded ==
    /\ Len(invocations) <= 3
    /\ \A i \in 1..(Len(invocations) - 1) : invocations[i] # "nil"
    /\ withRetryPc = "loop" =>
          /\ Len(invocations) < 3
          /\ \A i \in 1..Len(invocations) : invocations[i] # "nil"
    /\ withRetryPc = "done" =>
          /\ Len(invocations) >= 1
          /\ LET last == invocations[Len(invocations)] IN
                IF last = "nil" THEN withRetryErr = "nil"
                ELSE Len(invocations) = 3 /\ withRetryErr = invocations[3]

\* three failures, each of its own kind: the error returned wraps the third
C30_Witness ==
    /\ withRetryPc = "done"
    /\ invocations = << "enumerate active audio endpoints",
                        "get device count from device collection",
                        "process device" >>
    /\ withRetryErr = "process device"

\* The link with the scheduling the Go runtime gives its goroutines: a step
\* of the program that stays possible is eventually taken, the reconnect
\* ticker keeps firing, and the device keeps sending lines, so the read task
\* keeps coming back to its select.  The environment (the port, the
\* interrupt) is under no obligation.
Fairness ==
    /\ WF_vars(Start("run"))
    /\ WF_vars(ReconnectTick)
    /\ WF_vars(StopTickerRendezvous("main"))
    /\ WF_vars(StopCheck("main"))
    /\ WF_vars(StopChanRendezvous("main"))
    /\ WF_vars(ReaderClose)
    /\ WF_vars(DeferredFlag)
    /\ WF_vars(DeferredNotify)
    /\ \A p \in {"run", "listener"} :
          WF_vars(InitNames(p)) /\ WF_vars(InitMaster(p)) /\ WF_vars(InitSpawn(p))
    /\ WF_vars(ListenerRecv)
    /\ WF_vars(MainRelease)

LiveSpec == Spec /\ Fairness

\* Shutdown under the same scheduling: the value signalStop sends on
\* d.stopChannel is taken as soon as one of its receivers stays ready for it
StopFairness ==
    /\ WF_vars(StopSignalMain)
    /\ WF_vars(StopSignalListener)
    /\ WF_vars(StopSignalKeepAlive)

LiveStopSpec == Spec /\ Fairness /\ StopFairness

\* The link under config reloads with the same scheduling: the watcher's
\* send on the reload channel is taken once the goroutine of
\* setupOnConfigReload stays in its select, the timer of the delayed reset
\* fires, and each step of the restart is taken once it stays possible.
ReloadFairness ==
    /\ WF_vars(ConfigNotify)
    /\ WF_vars(DelayedReset)
    /\ \A p \in {"run", "reload"} : WF_vars(Start(p))
    /\ WF_vars(ReconnectTick)
    /\ WF_vars(StopTickerRendezvous("reload"))
    /\ WF_vars(StopCheck("reload"))
    /\ WF_vars(StopChanRendezvous("reload"))
    /\ WF_vars(ReaderClose)
    /\ WF_vars(DeferredFlag)

LiveReloadSpec == SpecReload /\ ReloadFairness

-----------------------------------------------------------------------------
(* Claims about the decoder, checked under SpecDecode.                     *)

Fields(s) == Split(TrimSuffix(s))

\* field 0 of a line that passes the grammar is a number above 100
FirstFieldOver100(s) ==
    /\ expectedLinePattern(s)
    /\ IsNumericField(Fields(s)[1])
    /\ Atoi(Fields(s)[1]) > 100

IsInvalidLine(s) == ~expectedLinePattern(s) \/ FirstFieldOver100(s)

IsValidLine(s) == ~IsInvalidLine(s)

\* C1: an invalid line (one that fails the grammar, or whose field 0 is a
\* number above 100) makes handleLine emit no event and leaves
\* lastKnownNumSliders and currentSliderPercentValues as they were, whatever
\* the decoder state before and however many fields the line has.
C1_InvalidLineLeavesHistory ==
    (op = "handleLine" /\ IsInvalidLine(line)) =>
        /\ moveEvents = <<>>
        /\ lastKnownNumSliders = preNum
        /\ currentSliderPercentValues = preValues

\* C2: a numeric field yields a Set event only if its value differs from the
\* value last observed at its index (beyond the noise threshold, so at least
\* by something); decoding the same line again emits no Set event.
C2_SetOnlyOnChange ==
    (op = "handleLine" /\ IsValidLine(line) /\ preNum = Len(Fields(line))) =>
        \A k \in 1..Len(moveEvents) :
            moveEvents[k].Command = "=" =>
                preValues[moveEvents[k].SliderID + 1] # moveEvents[k].PercentValue

\* the positions in events of the events of slider id
EventsAt(events, id) == { k \in 1..Len(events) : events[k].SliderID = id }

\* C12: in a valid line a field "+", "-" or "^" at position i yields exactly
\* one event, with SliderID i and that command; a field "=" yields no event
\* for its position; and a numeric field yields its Set event whatever the
\* other fields of the line are.
C12_CommandFieldsAndPlaceholder ==
    (op = "handleLine" /\ IsValidLine(line)) =>
        \A i \in 1..Len(Fields(line)) :
            LET f == Fields(line)[i]
                at == EventsAt(moveEvents, i - 1)
            IN  /\ f \in {<<"+">>, <<"-">>, <<"^">>} =>
                      /\ Cardinality(at) = 1
                      /\ \A k \in at : moveEvents[k].Command = f[1]
                /\ f = <<"=">> => at = {}
                /\ IsNumericField(f) =>
                      /\ Cardinality(at) = 1
                      /\ \A k \in at : moveEvents[k].Command = "="

C12_Witness ==
    /\ op = "handleLine"
    /\ Fields(line) = << <<"=">>, <<"5", "0">> >>
    /\ Len(moveEvents) = 1
    /\ moveEvents[1].SliderID = 1

Min(a, b) == IF a < b THEN a ELSE b

\* C13: every Set event carries a value in [0, 1]: for the numeric field n
\* at its position it is min(n, 100)/100, or 1 - min(n, 100)/100 under
\* invert_sliders; a value above 100 discards the line at index 0 only, at
\* any other index the field still yields its (clamped) event.
C13_SetValueClampedAndInverted ==
    (op = "handleLine") =>
        /\ \A k \in 1..Len(moveEvents) :
              moveEvents[k].Command = "=" =>
                  LET n == Atoi(Fields(line)[moveEvents[k].SliderID + 1])
                      v == moveEvents[k].PercentValue
                  IN  /\ v \in 0..100
                      /\ v = IF InvertSliders THEN 100 - Min(n, 100)
                                              ELSE Min(n, 100)
        /\ FirstFieldOver100(line) => moveEvents = <<>>
        /\ IsValidLine(line) =>
              \A i \in 1..Len(Fields(line)) :
                  IsNumericField(Fields(line)[i]) =>
                      EventsAt(moveEvents, i - 1) # {}

C13_Witness ==
    /\ op = "handleLine"
    /\ InvertSliders
    /\ Fields(line) = << <<"5", "0">>, <<"1", "0", "1">> >>
    /\ Len(moveEvents) = 2
    /\ moveEvents[1].PercentValue = 50
    /\ moveEvents[2].PercentValue = 0

\* C28: a valid line whose field count differs from lastKnownNumSliders
\* leaves the count at the line's field count and the history at that
\* length, with the entry of every field that is no number "unobserved" and
\* the entry of every numeric field the value of its one Set event; every
\* event of the line indexes the history within its bounds.
C28_ResizedHistoryOnCountChange ==
    (op = "handleLine" /\ IsValidLine(line) /\ Len(Fields(line)) # preNum) =>
        /\ lastKnownNumSliders = Len(Fields(line))
        /\ Len(currentSliderPercentValues) = Len(Fields(line))
        /\ \A i \in 1..Len(Fields(line)) :
              LET at == EventsAt(moveEvents, i - 1) IN
              IF IsNumericField(Fields(line)[i])
              THEN /\ Cardinality(at) = 1
                   /\ \A k \in at :
                         /\ moveEvents[k].Command = "="
                         /\ currentSliderPercentValues[i] = moveEvents[k].PercentValue
              ELSE currentSliderPercentValues[i] = -100
        /\ \A k \in 1..Len(moveEvents) :
              moveEvents[k].SliderID + 1 \in DOMAIN currentSliderPercentValues

\* a line of two fields after a line of one: the placeholder's entry is
\* unobserved, the number's entry is its value
C28_Witness ==
    /\ op = "handleLine"
    /\ ~InvertSliders
    /\ preNum = 1
    /\ preValues = <<50>>
    /\ Fields(line) = << <<"=">>, <<"5", "0">> >>
    /\ currentSliderPercentValues = <<-100, 50>>
    /\ Len(moveEvents) = 1

\* the delayed resets performed so far: one per reload the watcher has
\* loaded, less the one whose notification is not taken yet and the ones
\* whose delay has not passed
ResetsPerformed ==
    reloads - pendingResets - (IF watchPc = "notify" THEN 1 ELSE 0)

\* C29: every config reload the watcher has loaded leads to the delayed
\* reset of lastKnownNumSliders for it, and a valid line handled with the
\* count at 0 leaves a history re-created at the line's length and a Set
\* event for every numeric field.
C29_ReloadResetsSliderCount ==
    /\ \A n \in 1..MaxReloads : (reloads = n) ~> (ResetsPerformed >= n)
    /\ [](  (op = "handleLine" /\ IsValidLine(line) /\ preNum = 0) =>
              /\ Len(currentSliderPercentValues) = Len(Fields(line))
              /\ \A i \in 1..Len(Fields(line)) :
                    IF IsNumericField(Fields(line)[i])
                    THEN EventsAt(moveEvents, i - 1) # {}
                    ELSE currentSliderPercentValues[i] = -100 )

-----------------------------------------------------------------------------
(* Claims about the link.                                                  *)

\* the reconnection goroutine is there and its ticker fires
TimerRetries == reconnectLoops > 0 /\ ~tickerStopped

\* C3: after Start() returned an error because the first connection attempt
\* failed, the reconnect timer keeps running, so that a tick with the link
\* Disconnected makes a new connection attempt.
C3_TimerRetriesAfterFailedStart ==
    (startErr["run"] = "failed to connect" /\ pc["main"] = "run") => TimerRetries

C5_StopReturns ==
    (pc["main"] = "stopTicker") ~> (pc["main"] \in {"release", "exited"})

\* no background task of Deej or of the link is left
AllTasksExited ==
    /\ monitors = 0
    /\ keepAlives = 0
    /\ pc["listener"] \in {"none", "exited"}
    /\ reading = "none"
    /\ reconnectLoops = 0

\* C21: after shutdown is signalled every background task eventually
\* observes it and exits, and stop() returns with the sessions released.
C21_ShutdownReachesEveryTask ==
    (stopSignal = "pending") ~> (pc["main"] = "exited" /\ AllTasksExited)

\* C27: at any time at most one master volume monitor and at most one
\* keep-alive sender is running, after any number of initializeArduino calls.
C27_OneMonitorOneKeepAlive == monitors <= 1 /\ keepAlives <= 1

\* C6: the connection that the Start() of a reload restart opens uses the
\* port and baud rate of the reloaded configuration.
C6_RestartUsesNewParams ==
    (openedBy = "reload") => (openedWith = cfgAtOpen)

\* C7: after a link loss and a reconnect by the timer, the slider names and
\* the master state have been sent over the new connection before a
\* slider-move event decoded from it is dispatched.
C7_ReannounceBeforeDispatch ==
    (openedBy = "ticker" /\ dispatched) => ({"^", "!"} \subseteq wire)

\* every numeric field of line s has its Set event among events
EveryNumericFieldEmits(s, events) ==
    \A i \in 1..Len(Fields(s)) :
        IsNumericField(Fields(s)[i]) =>
            \E k \in 1..Len(events) :
                events[k].SliderID = i - 1 /\ events[k].Command = "="

\* C8: a successful reconnect resets lastKnownNumSliders, so that the first
\* valid line decoded after it emits an event for every numeric field.
C8_ReconnectResetsSliderCount ==
    /\ (openedBy = "ticker") => numAtOpen = 0
    /\ (openedBy = "ticker" /\ linesOnConn = 1 /\ op = "handleLine"
          /\ IsValidLine(line)) => EveryNumericFieldEmits(line, moveEvents)

\* C9: Start() called while the link is Connected returns the "connection
\* already active" error and changes nothing: no handle is opened, no read
\* task and no reconnection goroutine is spawned.
C9_StartWhileConnectedFailsFast ==
    [][\A p \in {"run", "reload"} :
          (pc[p] = "start" /\ pc'[p] # "start" /\ connected) =>
              /\ startErr'[p] = "connection already active"
              /\ UNCHANGED <<connVars, openVars, loopVars, taskVars>>]_vars

C9_Witness ==
    /\ startErr["reload"] = "connection already active"
    /\ connected /\ reconnectLoops = 0

\* C10: SendToArduino called while the link is Disconnected returns the
\* "serial not connected" error and writes nothing; the device gets a message
\* only in the step of a SendToArduino call made while Connected, so a
\* refused message is not sent later.
C10_SendWhileDisconnectedRefused ==
    /\ []((sent # NoSend /\ ~sent.connected) =>
            (sent.err = "serial not connected" /\ ~sent.wrote))
    /\ [](wire \subseteq acked)
    /\ [][(wire' # wire /\ wire' # {}) =>
            (sent'.connected /\ sent'.wrote /\ connected /\ conn # 0)]_vars

C10_Witness ==
    /\ sent.err = "serial not connected"
    /\ ~sent.connected
    /\ conn # 0
    /\ opened > 1
    /\ wire = {}

\* C16: each time the link comes up a keep-alive is sent at once, so that on
\* a connection made by the reconnect timer the periodic keep-alives follow
\* an initial one sent for that connection; and one sender is at work, so
\* that there is one keep-alive every 5 s.
C16_KeepAliveOnEveryLinkUp ==
    /\ (openedBy = "ticker" /\ "#tick" \in wire) => "#" \in wire
    /\ keepAlives <= 1

-----------------------------------------------------------------------------
(* Claims about the delivery of events, checked under SpecDeliver.         *)

IsPrefix(a, b) == Len(a) <= Len(b) /\ a = SubSeq(b, 1, Len(a))

\* events in the order of their lines and, within a line, of their fields
InDecodeOrder(evs) ==
    \A k, l \in 1..Len(evs) :
        k < l => \/ evs[k].line < evs[l].line
                 \/ /\ evs[k].line = evs[l].line
                    /\ evs[k].event.SliderID < evs[l].event.SliderID

\* C11: every subscriber gets the slider-move events in the order they were
\* decoded (within a line by ascending field position, an earlier line
\* before a later one), none dropped and none twice: what it has taken and
\* what waits in its channel are together a beginning of the decoded
\* events, and all of them once deliverMoveEvents has returned.
C11_SubscribersGetDecodeOrder ==
    /\ InDecodeOrder(decoded)
    /\ \A c \in 1..Len(sliderMoveConsumers) :
          /\ IsPrefix(received[c] \o sliderMoveConsumers[c], decoded)
          /\ delivering = NoDelivery =>
                received[c] \o sliderMoveConsumers[c] = decoded

C11_Witness ==
    /\ Len(sliderMoveConsumers) = 2
    /\ lineNo = 2
    /\ Len(decoded) >= 3
    /\ received[1] = decoded /\ received[2] = decoded

-----------------------------------------------------------------------------
(* Claims about the master volume monitor, checked under SpecMonitor.      *)

\* the tick finds the master session with another volume or mute than last
TickFindsChange ==
    /\ ticked' # ticked
    /\ masterSession.present
    /\ (masterSession.volume # lastVolume \/ masterSession.mute # lastMute)

\* the tick finds the master session as it was last
TickFindsSame ==
    /\ ticked' # ticked
    /\ masterSession.present
    /\ masterSession.volume = lastVolume /\ masterSession.mute = lastMute

\* C14: a monitor tick that finds the master volume or mute changed sends
\* exactly one update message, with the current mute flag (0 or 1) and the
\* current volume percent (0..100), sets the stability counter to 0 and
\* leaves the monitor at the high rate.
C14_ChangedTickSendsOneUpdate ==
    [][TickFindsChange =>
          /\ Len(monitorMsgs') = 1
          /\ monitorMsgs'[1].muteState = (IF masterSession.mute THEN 1 ELSE 0)
          /\ monitorMsgs'[1].volumePercent = masterSession.volume \div 10
          /\ monitorMsgs'[1].volumePercent \in 0..100
          /\ stableCounter' = 0
          /\ currentInterval' = highFreqInterval]_vars

C14_Witness ==
    /\ monitorMsgs = <<[muteState |-> 1, volumePercent |-> 50]>>
    /\ lastVolume = 505 /\ lastMute
    /\ stableCounter = 0
    /\ stableRun = 0

\* C15: the stability counter is the number of ticks in a row that found
\* the master session unchanged: such a tick sends nothing, a changed tick
\* puts the count back to 0, and once stableThreshold ticks in a row were
\* stable the monitor is at the low rate.
C15_StableTicksReturnToLowRate ==
    /\ [][TickFindsSame => monitorMsgs' = <<>>]_vars
    /\ [][TickFindsChange => stableCounter' = 0]_vars
    /\ [](stableCounter = stableRun)
    /\ [](stableRun >= stableThreshold => currentInterval = lowFreqInterval)

C15_Witness ==
    /\ stableRun = stableThreshold
    /\ stableCounter = stableThreshold
    /\ currentInterval = lowFreqInterval
    /\ monitorMsgs = <<>>

-----------------------------------------------------------------------------
(* Claims about the link's tasks and handles.                              *)

\* the goroutines of readFromSerial that have not returned: the one in its
\* loop and the ones in their deferred func
ReadTasks ==
    (IF reading # "none" THEN 1 ELSE 0) + deferFlag + deferNotify

\* C31: at every moment the link holds at most one open serial handle and
\* at most one read task has not returned.
C31_OneHandleOneReadTask ==
    /\ Cardinality(handles) <= 1
    /\ ReadTasks <= 1

\* C32: the one value signalStop sends on d.stopChannel is received by the
\* main run loop, which then executes stop(), whichever other tasks wait on
\* the channel: once the value is taken, the main loop has left its wait.
C32_StopSignalReachesMain ==
    stopSignal = "taken" => pc["main"] # "run"

-----------------------------------------------------------------------------
(* Claims about the monitor on the link.                                   *)

\* C33: a tick that finds the master state changed while SendToArduino
\* refuses the update (the link is Disconnected) leaves the monitor's
\* last-observed volume and mute as they were, so that a later tick finds
\* the change again and sends it; and whenever the monitor holds the master
\* state as last observed, that state is the one last written to the device.
C33_RefusedUpdateKeepsLastObserved ==
    /\ [][(TickFindsChange /\ SendRefuses) =>
            (lastVolume' = lastVolume /\ lastMute' = lastMute)]_vars
    /\ []((/\ masterSession.present
           /\ lastVolume = masterSession.volume
           /\ lastMute = masterSession.mute) =>
             deviceMaster = MasterMessage(masterSession.mute, masterSession.volume))

-----------------------------------------------------------------------------
(* Claims about the link after a restart.                                  *)

\* C34: after a Stop() followed by a successful Start() (the restart of a
\* reload) the reconnect timer still fires: while the reconnection goroutine
\* of that Start lives, its ticker has not been stopped.
C34_TimerFiresAfterRestart ==
    (openedBy = "reload" /\ pc["reload"] = "idle" /\ reconnectLoops > 0) =>
        ~tickerStopped

\* C35: a reload that leaves the port and baud rate as they were, and as
\* they were when the current connection was made, does not stop or
\* restart the link: the goroutine of setupOnConfigReload stays in its
\* select, also when an earlier reload did change them.
C35_UnchangedParamsNoRestart ==
    [][(/\ watchPc = "notify" /\ watchPc' = "idle"
        /\ ~loadChanged
        /\ connected
        /\ ConnectionInfo = cfgAtOpen) =>
            pc'["reload"] = "idle"]_vars

-----------------------------------------------------------------------------
(* Claims about the passes of the session finder.                          *)

\* C36: a pass that returns without an error returns each live session
\* once: no two of its sessions stand for the same master, device or
\* process session, whatever attempts of the enumeration failed before the
\* one that succeeded.
C36_EachLiveSessionOnce ==
    \A p \in DOMAIN pass :
        (pass[p].pc = "return" /\ ~pass[p].err) =>
            \A i, j \in 1..Len(pass[p].live) :
                pass[p].live[i] = pass[p].live[j] => i = j


\* C37: when a pass of the health check is over, every session it created
\* has been released or is held by the finder as a master session, which
\* Release() releases: the health check leaves no session without an owner.
C37_HealthPassLeaksNoSession ==
    [][(pass["health"].pc = "return" /\ pass'["health"].pc = "idle") =>
          pass["health"].created \subseteq
              (releasedSessions' \cup {masterOut', masterIn'})]_vars


\* C38: the finder counts as connected only while the notification client
\* is registered with the device enumerator; after a pass whose
\* registration failed it does not count as connected, so that the next
\* pass registers again.
C38_ConnectedMeansRegistered ==
    isConnected => mmNotificationClient = "registered"

-----------------------------------------------------------------------------
(* Claims about the end of the session finder.                             *)

\* C39: once Release() has been called the health check begins no pass,
\* and no pass is under way at the moment Release() is called and tears the
\* device enumerator down.
C39_NoPassAtOrAfterRelease ==
    /\ [][ctxDone =>
            ~(pass["health"].pc = "idle" /\ pass'["health"].pc # "idle")]_vars
    /\ [][(~ctxDone /\ ctxDone') => pass["health"].pc = "idle"]_vars

-----------------------------------------------------------------------------
(* Claims about the rate of the monitor.                                   *)

\* C40: after every tick, a monitor at the high rate has counted fewer
\* stable ticks in a row than the threshold: it is never at the high rate
\* with stableThreshold or more stable ticks counted.
C40_HighRateBelowThreshold ==
    currentInterval = highFreqInterval => stableCounter < stableThreshold

====
